---- MODULE Spec2Model ----
(***************************************************************************)
(* RiskLens: the response-normalisation and derived-risk-scoring pipeline. *)
(*                                                                         *)
(*   services/geminiService  analyzeEntityRisk, getGlobalRiskUpdates       *)
(*   components/LiveRiskDashboard  the analytics engine (useMemo)          *)
(*   components/SearchDashboard, App  the holders of the analysis result   *)
(*                                                                         *)
(* Representation.  A JavaScript string is a sequence of one-character     *)
(* strings, so that length, substring, includes and the regular            *)
(* expressions of the source are computed character by character.  The     *)
(* three non-ASCII characters of the bullet in ensureString are written    *)
(* with the stand-ins "^", "~" and "@", which occur nowhere else.          *)
(* A JavaScript number is a decimal n / 10^e, kept canonical (no trailing  *)
(* zero digit in the fraction); exponents are outside the inputs drawn.    *)
(***************************************************************************)
EXTENDS Integers, Sequences, FiniteSets, TLC

VARIABLES
    backend,            \* what ai.models.generateContent does when it is awaited
    call,               \* analyzeEntityRisk: "idle", "pending", "resolved", "rejected"
    settled,            \* what the analyzeEntityRisk promise settled with
    recentRiskAnalysis, \* App state, passed to LiveRiskDashboard as riskData
    analytics,          \* LiveRiskDashboard: the value of the analytics memo
    feedCall,           \* getGlobalRiskUpdates: "idle", "pending", "resolved", "rejected"
    feedSettled,        \* what the getGlobalRiskUpdates promise settled with
    timeRange,          \* LiveRiskDashboard state: "30", "60" or "90"
    trend,              \* the trend simulation of the analytics memo, as far as it has run
    hoverData,          \* LiveRiskDashboard state: the chart point under the mouse, or null
    currentView,        \* App state: "DASHBOARD", "AGENT" or "LIVE"
    mount,              \* how many SearchDashboard instances have been mounted so far
    query,              \* SearchDashboard state of the mounted instance
    loading,            \* SearchDashboard state of the mounted instance
    result,             \* SearchDashboard state of the mounted instance
    error,              \* SearchDashboard state of the mounted instance
    inflight,           \* the handleSearch calls that are awaiting analyzeEntityRisk
    history,            \* the handleSearch calls that have finished, oldest first
    agentMount,         \* how many GlobalAgent instances have been mounted so far
    events,             \* GlobalAgent state of the mounted instance
    agentLoading,       \* GlobalAgent state "loading" of the mounted instance
    selectedCategories, \* GlobalAgent state of the mounted instance
    fetches,            \* the fetchUpdates calls that are awaiting getGlobalRiskUpdates
    fetched,            \* how many fetchUpdates calls have been made so far
    input,              \* the argument a function of the program is applied to
    output              \* what the function returned for input

pipeVars == <<backend, call, settled, recentRiskAnalysis, analytics, feedCall, feedSettled>>

trendVars == <<timeRange, trend, hoverData>>

uiVars == <<currentView, mount, query, loading, result, error, inflight, history>>

agentVars == <<agentMount, events, agentLoading, selectedCategories, fetches, fetched>>

funVars == <<input, output>>

extVars == <<trendVars, uiVars, agentVars, funVars>>

vars == <<pipeVars, extVars>>

(***************************************************************************)
(* Characters and strings                                                  *)
(***************************************************************************)
LowerCase == <<"a","b","c","d","e","f","g","h","i","j","k","l","m","n","o","p","q","r","s","t","u","v","w","x","y","z">>

UpperCase == <<"A","B","C","D","E","F","G","H","I","J","K","L","M","N","O","P","Q","R","S","T","U","V","W","X","Y","Z">>

DigitChars == <<"0","1","2","3","4","5","6","7","8","9">>

UpperSet == {UpperCase[k] : k \in 1..26}

LowerSet == {LowerCase[k] : k \in 1..26}

DigitSet == {DigitChars[k] : k \in 1..10}

IsUpper(c) == c \in UpperSet

IsLower(c) == c \in LowerSet

IsDigit(c) == c \in DigitSet

DigitVal(c) == (CHOOSE k \in 1..10 : DigitChars[k] = c) - 1

LowerOf == [u \in UpperSet |-> LowerCase[CHOOSE k \in 1..26 : UpperCase[k] = u]]

UpperOf == [l \in LowerSet |-> UpperCase[CHOOSE k \in 1..26 : LowerCase[k] = l]]

\* String.prototype.toLowerCase / toUpperCase on one character
LowerChar(c) == IF IsUpper(c) THEN LowerOf[c] ELSE c

UpperChar(c) == IF IsLower(c) THEN UpperOf[c] ELSE c

toLowerCase(s) == [i \in 1..Len(s) |-> LowerChar(s[i])]

toUpperCase(s) == [i \in 1..Len(s) |-> UpperChar(s[i])]

\* s.includes(k)
includes(s, k) ==
    \E i \in 1..(Len(s) - Len(k) + 1) : \A j \in 1..Len(k) : s[i + j - 1] = k[j]

\* a bug: one character too many
substring0_OffByOne(s, n) == SubSeq(s, 1, IF Len(s) < n + 1 THEN Len(s) ELSE n + 1)

\* s.substring(0, n)
substring0(s, n) == SubSeq(s, 1, IF Len(s) < n THEN Len(s) ELSE n)

\* !s for a string, and s || d
Falsy(s) == s = <<>>

\* array.join(sep) for an array of strings
RECURSIVE join(_, _)
join(parts, sep) ==
    IF parts = <<>> THEN <<>>
    ELSE IF Len(parts) = 1 THEN parts[1]
    ELSE parts[1] \o sep \o join(Tail(parts), sep)

(***************************************************************************)
(* JSON values, and undefined                                              *)
(***************************************************************************)
JV(t, n, e, s, keys, kids) ==
    [t |-> t, n |-> n, e |-> e, s |-> s, keys |-> keys, kids |-> kids]

Undefined == JV("undefined", 0, 0, <<>>, <<>>, <<>>)

JNull == JV("null", 0, 0, <<>>, <<>>, <<>>)

JBool(b) == JV(IF b THEN "true" ELSE "false", 0, 0, <<>>, <<>>, <<>>)

RECURSIVE Canon(_, _)
Canon(n, e) ==
    IF e > 0 /\ n % 10 = 0 THEN Canon(n \div 10, e - 1) ELSE <<n, e>>

\* the number n / 10^e
JNum(n, e) ==
    LET c == Canon(n, e) IN JV("number", c[1], c[2], <<>>, <<>>, <<>>)

JStr(s) == JV("string", 0, 0, s, <<>>, <<>>)

JArr(kids) == JV("array", 0, 0, <<>>, <<>>, kids)

\* an object: its own enumerable keys in insertion order, and their values
JObj(keys, kids) == JV("object", 0, 0, <<>>, keys, kids)

\* raw.k  (property read on a parsed value that is not null)
Prop(v, k) ==
    IF v.t = "object" /\ \E i \in 1..Len(v.keys) : v.keys[i] = k
    THEN v.kids[CHOOSE i \in 1..Len(v.keys) : v.keys[i] = k]
    ELSE Undefined

\* obj[k] = v  during JSON.parse: a repeated key keeps its first position
PutKey(keys, kids, k, v) ==
    IF \E i \in 1..Len(keys) : keys[i] = k
    THEN LET p == CHOOSE i \in 1..Len(keys) : keys[i] = k
         IN  <<keys, [kids EXCEPT ![p] = v]>>
    ELSE <<Append(keys, k), Append(kids, v)>>

(***************************************************************************)
(* JSON.parse (ECMA-404 without string escapes and number exponents)       *)
(***************************************************************************)
Ws == {" ", "\n", "\t"}

ParseFail == [ok |-> FALSE, val |-> Undefined, pos |-> 0]

ParseOk(v, p) == [ok |-> TRUE, val |-> v, pos |-> p]

RECURSIVE SkipWs(_, _)
SkipWs(s, i) ==
    IF i <= Len(s) /\ s[i] \in Ws THEN SkipWs(s, i + 1) ELSE i

\* index of the closing quote of the string whose first character is at i, 0 if none
RECURSIVE StringEnd(_, _)
StringEnd(s, i) ==
    IF i > Len(s) THEN 0
    ELSE IF s[i] = "\"" THEN i
    ELSE IF s[i] \in {"\n", "\t", "\\"} THEN 0
    ELSE StringEnd(s, i + 1)

\* s[i] is the opening quote
ParseString(s, i) ==
    LET j == StringEnd(s, i + 1)
    IN  IF j = 0 THEN ParseFail ELSE ParseOk(JStr(SubSeq(s, i + 1, j - 1)), j + 1)

RECURSIVE DigitsEnd(_, _)
DigitsEnd(s, i) ==
    IF i <= Len(s) /\ IsDigit(s[i]) THEN DigitsEnd(s, i + 1) ELSE i

RECURSIVE DigitsVal(_)
DigitsVal(ds) ==
    IF ds = <<>> THEN 0
    ELSE 10 * DigitsVal(SubSeq(ds, 1, Len(ds) - 1)) + DigitVal(ds[Len(ds)])

\* '-'? ('0' | [1-9][0-9]*) ('.' [0-9]+)?
ParseNumber(s, i) ==
    LET neg   == s[i] = "-"
        a     == IF neg THEN i + 1 ELSE i
        b     == DigitsEnd(s, a)
        frac  == b <= Len(s) /\ s[b] = "."
        c     == IF frac THEN DigitsEnd(s, b + 1) ELSE b
        mant  == DigitsVal(SubSeq(s, a, b - 1) \o (IF frac THEN SubSeq(s, b + 1, c - 1) ELSE <<>>))
        e     == IF frac THEN c - (b + 1) ELSE 0
    IN  IF b = a \/ (b - a > 1 /\ s[a] = "0") \/ (frac /\ c = b + 1)
        THEN ParseFail
        ELSE ParseOk(JNum(IF neg THEN 0 - mant ELSE mant, e), c)

ParseLiteral(s, i, word, v) ==
    IF i + Len(word) - 1 <= Len(s) /\ SubSeq(s, i, i + Len(word) - 1) = word
    THEN ParseOk(v, i + Len(word))
    ELSE ParseFail

RECURSIVE ParseValue(_, _)
RECURSIVE ParseMembers(_, _, _, _)
RECURSIVE ParseElements(_, _, _)

\* i is just after '{' or ','; a member must follow
ParseMembers(s, i, keys, kids) ==
    LET j == SkipWs(s, i)
    IN  IF j > Len(s) \/ s[j] # "\"" THEN ParseFail
        ELSE LET k == ParseString(s, j)
             IN  IF ~k.ok THEN ParseFail
                 ELSE LET c == SkipWs(s, k.pos)
                      IN  IF c > Len(s) \/ s[c] # ":" THEN ParseFail
                          ELSE LET v == ParseValue(s, c + 1)
                               IN  IF ~v.ok THEN ParseFail
                                   ELSE LET d   == SkipWs(s, v.pos)
                                            put == PutKey(keys, kids, k.val.s, v.val)
                                        IN  IF d > Len(s) THEN ParseFail
                                            ELSE IF s[d] = "}" THEN ParseOk(JObj(put[1], put[2]), d + 1)
                                            ELSE IF s[d] = "," THEN ParseMembers(s, d + 1, put[1], put[2])
                                            ELSE ParseFail

\* i is just after '[' or ','; an element must follow
ParseElements(s, i, kids) ==
    LET v == ParseValue(s, i)
    IN  IF ~v.ok THEN ParseFail
        ELSE LET d == SkipWs(s, v.pos)
             IN  IF d > Len(s) THEN ParseFail
                 ELSE IF s[d] = "]" THEN ParseOk(JArr(Append(kids, v.val)), d + 1)
                 ELSE IF s[d] = "," THEN ParseElements(s, d + 1, Append(kids, v.val))
                 ELSE ParseFail

ParseValue(s, i) ==
    LET j == SkipWs(s, i)
    IN  IF j > Len(s) THEN ParseFail
        ELSE IF s[j] = "{" THEN
                 LET c == SkipWs(s, j + 1)
                 IN  IF c <= Len(s) /\ s[c] = "}" THEN ParseOk(JObj(<<>>, <<>>), c + 1)
                     ELSE ParseMembers(s, j + 1, <<>>, <<>>)
        ELSE IF s[j] = "[" THEN
                 LET c == SkipWs(s, j + 1)
                 IN  IF c <= Len(s) /\ s[c] = "]" THEN ParseOk(JArr(<<>>), c + 1)
                     ELSE ParseElements(s, j + 1, <<>>)
        ELSE IF s[j] = "\"" THEN ParseString(s, j)
        ELSE IF s[j] = "-" \/ IsDigit(s[j]) THEN ParseNumber(s, j)
        ELSE IF s[j] = "n" THEN ParseLiteral(s, j, <<"n","u","l","l">>, JNull)
        ELSE IF s[j] = "t" THEN ParseLiteral(s, j, <<"t","r","u","e">>, JBool(TRUE))
        ELSE IF s[j] = "f" THEN ParseLiteral(s, j, <<"f","a","l","s","e">>, JBool(FALSE))
        ELSE ParseFail

\* JSON.parse(s): ok = FALSE stands for the SyntaxError it throws
JSONparse(s) ==
    LET r == ParseValue(s, 1)
    IN  IF r.ok /\ SkipWs(s, r.pos) > Len(s) THEN [ok |-> TRUE, val |-> r.val]
        ELSE [ok |-> FALSE, val |-> Undefined]

(***************************************************************************)
(* services/geminiService: text extraction                                 *)
(***************************************************************************)
\* a bug: a lazy quantifier, the span ends at the first closing delimiter
\* after the first opening one
match_Lazy(text, open, close) ==
    LET opens  == {i \in 1..Len(text) : text[i] = open}
        first  == CHOOSE i \in opens : \A j \in opens : i <= j
        closes == {i \in 1..Len(text) : text[i] = close /\ (opens = {} \/ i > first)}
        last   == CHOOSE i \in closes : \A j \in closes : i <= j
    IN  IF opens # {} /\ closes # {}
        THEN [found |-> TRUE, span |-> SubSeq(text, first, last)]
        ELSE [found |-> FALSE, span |-> <<>>]

\* text.match(/\{[\s\S]*\}/) and text.match(/\[[\s\S]*\]/): the greedy span
\* from the first opening delimiter to the last closing one; <<>> wrapped in
\* a record with found = FALSE stands for the null of a failed match.
match(text, open, close) ==
    LET opens  == {i \in 1..Len(text) : text[i] = open}
        closes == {i \in 1..Len(text) : text[i] = close}
        first  == CHOOSE i \in opens : \A j \in opens : i <= j
        last   == CHOOSE i \in closes : \A j \in closes : j <= i
    IN  IF opens # {} /\ closes # {} /\ first < last
        THEN [found |-> TRUE, span |-> SubSeq(text, first, last)]
        ELSE [found |-> FALSE, span |-> <<>>]

(***************************************************************************)
(* services/geminiService: ensureString                                    *)
(***************************************************************************)
NoDataAvailable == <<"N","o"," ","d","a","t","a"," ","a","v","a","i","l","a","b","l","e",".">>

NoneText == <<"N","o","n","e",".">>

BulletPrefix == <<"^","~","@"," ">>

RECURSIVE Pow10(_)
Pow10(e) == IF e = 0 THEN 1 ELSE 10 * Pow10(e - 1)

RECURSIVE NatDigits(_)
NatDigits(n) ==
    IF n < 10 THEN <<DigitChars[n + 1]>>
    ELSE Append(NatDigits(n \div 10), DigitChars[(n % 10) + 1])

RECURSIVE PadZeros(_, _)
PadZeros(ds, width) == IF Len(ds) < width THEN PadZeros(<<"0">> \o ds, width) ELSE ds

\* Number.prototype.toString() of n / 10^e
NumberToString(n, e) ==
    LET a == IF n < 0 THEN 0 - n ELSE n
    IN  (IF n < 0 THEN <<"-">> ELSE <<>>)
        \o NatDigits(a \div Pow10(e))
        \o (IF e = 0 THEN <<>> ELSE <<".">> \o PadZeros(NatDigits(a % Pow10(e)), e))

\* k.replace(/([A-Z])/g, " $1")
RECURSIVE SpaceCapitals(_)
SpaceCapitals(k) ==
    IF k = <<>> THEN <<>>
    ELSE (IF IsUpper(k[1]) THEN <<" ", k[1]>> ELSE <<k[1]>>) \o SpaceCapitals(Tail(k))

\* .replace(/^./, str => str.toUpperCase())
UpperFirst(k) ==
    IF k = <<>> \/ k[1] = "\n" THEN k ELSE <<UpperChar(k[1])>> \o Tail(k)

cleanKey(k) == UpperFirst(SpaceCapitals(k))

\* a bug: an empty array is joined like any other array
RECURSIVE ensureString_NoEmptyArrayCase(_, _)
ensureString_NoEmptyArrayCase(val, depth) ==
    IF val.t \in {"null", "undefined"} THEN NoDataAvailable
    ELSE IF val.t = "string" THEN val.s
    ELSE IF val.t = "number" THEN NumberToString(val.n, val.e)
    ELSE IF val.t \in {"true", "false"} THEN
        (IF val.t = "true" THEN <<"t","r","u","e">> ELSE <<"f","a","l","s","e">>)
    ELSE IF val.t = "array" THEN
        join([i \in 1..Len(val.kids) |->
                 BulletPrefix \o ensureString_NoEmptyArrayCase(val.kids[i], depth + 1)], <<"\n">>)
    ELSE
        join([i \in 1..Len(val.keys) |->
                 cleanKey(val.keys[i]) \o <<":", " ">>
                     \o ensureString_NoEmptyArrayCase(val.kids[i], depth + 1)],
             IF depth > 0 THEN <<",", " ">> ELSE <<"\n">>)

\* a bug: null is not tested for, and Object.entries(null) throws a TypeError.
\* The exception is written as the sequence <<"TypeError">>, which is no string.
RECURSIVE ensureString_NullAsObject(_, _)
ensureString_NullAsObject(val, depth) ==
    IF val.t = "undefined" THEN NoDataAvailable
    ELSE IF val.t = "null" THEN <<"TypeError">>
    ELSE IF val.t = "string" THEN val.s
    ELSE IF val.t = "number" THEN NumberToString(val.n, val.e)
    ELSE IF val.t \in {"true", "false"} THEN
        (IF val.t = "true" THEN <<"t","r","u","e">> ELSE <<"f","a","l","s","e">>)
    ELSE IF val.t = "array" THEN
        IF Len(val.kids) = 0 THEN NoneText
        ELSE join([i \in 1..Len(val.kids) |->
                      BulletPrefix \o ensureString_NullAsObject(val.kids[i], depth + 1)],
                  <<"\n">>)
    ELSE
        join([i \in 1..Len(val.keys) |->
                 cleanKey(val.keys[i]) \o <<":", " ">>
                     \o ensureString_NullAsObject(val.kids[i], depth + 1)],
             IF depth > 0 THEN <<",", " ">> ELSE <<"\n">>)

\* a bug: the elements of an array are joined by ", "
RECURSIVE ensureString_CommaJoinedArray(_, _)
ensureString_CommaJoinedArray(val, depth) ==
    IF val.t \in {"null", "undefined"} THEN NoDataAvailable
    ELSE IF val.t = "string" THEN val.s
    ELSE IF val.t = "number" THEN NumberToString(val.n, val.e)
    ELSE IF val.t \in {"true", "false"} THEN
        (IF val.t = "true" THEN <<"t","r","u","e">> ELSE <<"f","a","l","s","e">>)
    ELSE IF val.t = "array" THEN
        IF Len(val.kids) = 0 THEN NoneText
        ELSE join([i \in 1..Len(val.kids) |->
                      BulletPrefix \o ensureString_CommaJoinedArray(val.kids[i], depth + 1)],
                  <<",", " ">>)
    ELSE
        join([i \in 1..Len(val.keys) |->
                 cleanKey(val.keys[i]) \o <<":", " ">>
                     \o ensureString_CommaJoinedArray(val.kids[i], depth + 1)],
             IF depth > 0 THEN <<",", " ">> ELSE <<"\n">>)

RECURSIVE ensureString(_, _)
ensureString(val, depth) ==
    IF val.t \in {"null", "undefined"} THEN NoDataAvailable
    ELSE IF val.t = "string" THEN val.s
    ELSE IF val.t = "number" THEN NumberToString(val.n, val.e)
    ELSE IF val.t \in {"true", "false"} THEN
        (IF val.t = "true" THEN <<"t","r","u","e">> ELSE <<"f","a","l","s","e">>)
    ELSE IF val.t = "array" THEN
        IF Len(val.kids) = 0 THEN NoneText
        ELSE join([i \in 1..Len(val.kids) |->
                      BulletPrefix \o ensureString(val.kids[i], depth + 1)], <<"\n">>)
    ELSE \* typeof val === 'object'
        join([i \in 1..Len(val.keys) |->
                 cleanKey(val.keys[i]) \o <<":", " ">> \o ensureString(val.kids[i], depth + 1)],
             IF depth > 0 THEN <<",", " ">> ELSE <<"\n">>)

(***************************************************************************)
(* services/geminiService: analyzeEntityRisk                               *)
(***************************************************************************)
kEntityInfo == <<"e","n","t","i","t","y","I","n","f","o">>

kLitigation == <<"l","i","t","i","g","a","t","i","o","n">>

kSanctions == <<"s","a","n","c","t","i","o","n","s">>

kReputation == <<"r","e","p","u","t","a","t","i","o","n">>

kPepExposure == <<"p","e","p","E","x","p","o","s","u","r","e">>

kComplianceGaps == <<"c","o","m","p","l","i","a","n","c","e","G","a","p","s">>

kRiskScore == <<"r","i","s","k","S","c","o","r","e">>

FormatErrorText == <<"D","a","t","a"," ","u","n","a","v","a","i","l","a","b","l","e"," ","d","u","e"," ","t","o"," ","f","o","r","m","a","t"," ","e","r","r","o","r",".">>

RawSummaryNote == <<"C","o","n","t","e","n","t"," ","g","e","n","e","r","a","t","e","d"," ","b","u","t"," ","s","t","r","u","c","t","u","r","e","d"," ","p","a","r","s","i","n","g"," ","f","a","i","l","e","d","."," ","R","a","w"," ","s","u","m","m","a","r","y",":"," ">>

Ellipsis == <<".",".",".">>

FailedToAnalyze == <<"F","a","i","l","e","d"," ","t","o"," ","a","n","a","l","y","z","e"," ","e","n","t","i","t","y",".">>

ExcerptLen == 150

DefaultRiskScore == 50

\* an optional value: undefined, or a string
None == [some |-> FALSE, s |-> <<>>]

Some(s) == [some |-> TRUE, s |-> s]

\* truthiness of an optional string
Truthy(o) == o.some /\ o.s # <<>>

Num(n, e) == [n |-> n, e |-> e]

\* const text = response.text || "{}"
TextOr(resp, dflt) == IF Truthy(resp.text) THEN resp.text.s ELSE dflt

\* the completion of a block of code: a value, or a thrown exception
Returned(v) == [threw |-> FALSE, exc |-> "", val |-> v]

Threw(exc) == [threw |-> TRUE, exc |-> exc, val |-> <<>>]

\* a bug: the parsed riskScore is taken without the typeof test
riskScoreOf_Unchecked(raw) == Num(Prop(raw, kRiskScore).n, Prop(raw, kRiskScore).e)

\* typeof raw.riskScore === "number" ? raw.riskScore : 50  (line 95)
riskScoreOf(raw) ==
    IF Prop(raw, kRiskScore).t = "number"
    THEN Num(Prop(raw, kRiskScore).n, Prop(raw, kRiskScore).e)
    ELSE Num(DefaultRiskScore, 0)

\* the report literal of the inner try block (lines 88-96)
ParsedReport(raw) ==
    [entityInfo     |-> ensureString(Prop(raw, kEntityInfo), 0),
     litigation     |-> ensureString(Prop(raw, kLitigation), 0),
     sanctions      |-> ensureString(Prop(raw, kSanctions), 0),
     reputation     |-> ensureString(Prop(raw, kReputation), 0),
     pepExposure    |-> ensureString(Prop(raw, kPepExposure), 0),
     complianceGaps |-> ensureString(Prop(raw, kComplianceGaps), 0),
     riskScore      |-> riskScoreOf(raw)]

\* the inner try block (lines 57-97): JSON.parse throws a SyntaxError, and
\* raw.entityInfo throws a TypeError when raw is null
TryRaw(raw) ==
    IF ~raw.ok THEN Threw("SyntaxError")
    ELSE IF raw.val.t = "null" THEN Threw("TypeError")
    ELSE Returned(ParsedReport(raw.val))

\* const raw = JSON.parse(cleanJson), and the statements that follow it
TryParse(cleanJson) == TryRaw(JSONparse(cleanJson))

\* the report literal of the inner catch block (lines 101-109)
FallbackReport(text) ==
    [entityInfo     |-> RawSummaryNote \o substring0(text, ExcerptLen) \o Ellipsis,
     litigation     |-> FormatErrorText,
     sanctions      |-> FormatErrorText,
     reputation     |-> FormatErrorText,
     pepExposure    |-> FormatErrorText,
     complianceGaps |-> FormatErrorText,
     riskScore      |-> Num(0, 0)]

\* a bug: the inner catch absorbs only the SyntaxError of JSON.parse
CatchParse_SyntaxErrorOnly(exc, text) ==
    IF exc = "SyntaxError" THEN Returned(FallbackReport(text)) ELSE Threw(exc)

\* the inner catch block (lines 98-110): catches every exception
CatchParse(exc, text) == Returned(FallbackReport(text))

\* jsonMatch ? jsonMatch[0] : otherwise
SpanOr(jsonMatch, otherwise) == IF jsonMatch.found THEN jsonMatch.span ELSE otherwise

\* a bug: the text is parsed as it came, the span is not used
CleanJson_WholeText(text) == text

\* const cleanJson = jsonMatch ? jsonMatch[0] : text
CleanJson(text) == SpanOr(match(text, "{", "}"), text)

\* the try/catch of lines 57-110: the catch block runs when the try block threw
InnerTry(try, text) == IF try.threw THEN CatchParse(try.exc, text) ELSE try

\* lines 50-110: text, cleanJson, and the try/catch that assigns report
BuildReport(text) == InnerTry(TryParse(CleanJson(text)), text)

\* a bug: only the uri is tested
KeepChunk_UriOnly(chunk) == chunk.web /\ Truthy(chunk.uri)

\* chunk.web?.uri && chunk.web?.title
KeepChunk(chunk) == chunk.web /\ Truthy(chunk.uri) /\ Truthy(chunk.title)

\* chunks.forEach(...) pushing onto sources (lines 113-125)
RECURSIVE ExtractSources(_)
ExtractSources(chunks) ==
    IF chunks = <<>> THEN <<>>
    ELSE (IF KeepChunk(chunks[1])
          THEN <<[title |-> chunks[1].title.s, uri |-> chunks[1].uri.s]>>
          ELSE <<>>) \o ExtractSources(Tail(chunks))

\* lines 112-127: the sources are extracted and the result is returned, unless
\* an exception has escaped the statements before
WithSources(built, resp) ==
    IF built.threw THEN Threw(built.exc)
    ELSE Returned([report  |-> built.val,
                   sources |-> IF resp.hasChunks THEN ExtractSources(resp.chunks) ELSE <<>>])

\* the outer try block after the await has resolved with resp (lines 50-127)
AfterAwait(resp) == WithSources(BuildReport(TextOr(resp, <<"{","}">>)), resp)

\* a bug: a backend failure is answered with a degraded report
OuterCatch_Degraded(exc) ==
    [kind |-> "resolved", report |-> FallbackReport(<<>>), sources |-> <<>>]

\* the outer catch block (lines 129-132)
OuterCatch(exc) == [kind |-> "rejected", message |-> FailedToAnalyze]

\* the outer try/catch around a body that has returned or thrown
OuterTry(body) ==
    IF body.threw THEN OuterCatch(body.exc)
    ELSE [kind |-> "resolved", report |-> body.val.report, sources |-> body.val.sources]

\* how the promise of analyzeEntityRisk settles, given what generateContent does
analyzeEntityRisk(b) ==
    IF b.fails THEN OuterCatch("BackendError") ELSE OuterTry(AfterAwait(b))

(***************************************************************************)
(* services/geminiService: getGlobalRiskUpdates                            *)
(***************************************************************************)
\* const cleanJson = jsonMatch ? jsonMatch[0] : "[]"
FeedCleanJson(text) == SpanOr(match(text, "[", "]"), <<"[","]">>)

\* return JSON.parse(cleanJson): the parsed value, or a SyntaxError
FeedParsed(parsed) == IF parsed.ok THEN Returned(parsed.val) ELSE Threw("SyntaxError")

\* the try block after the await has resolved with resp (lines 172-177)
FeedAfterAwait(resp) == FeedParsed(JSONparse(FeedCleanJson(TextOr(resp, <<"[","]">>))))

\* a bug: the catch block rethrows
FeedCatch_Rethrow(exc) == [kind |-> "rejected", message |-> exc]

\* the catch block (lines 178-181): return []
FeedCatch(exc) == [kind |-> "resolved", value |-> JArr(<<>>)]

\* the try/catch around a body that has returned or thrown
FeedTry(body) ==
    IF body.threw THEN FeedCatch(body.exc) ELSE [kind |-> "resolved", value |-> body.val]

\* how the promise of getGlobalRiskUpdates settles, given what generateContent does
getGlobalRiskUpdates(b) ==
    IF b.fails THEN FeedCatch("BackendError") ELSE FeedTry(FeedAfterAwait(b))

(***************************************************************************)
(* components/LiveRiskDashboard: the risk calculation engine               *)
(*                                                                         *)
(* Sub-scores are kept in tenths (45 is 4.5).  severityNormalized and      *)
(* likelihoodNormalized are kept as numerators over 40 and over 35, so     *)
(* that every quantity is an exact rational.                               *)
(***************************************************************************)
SafePatterns ==
    << <<"n","o"," ","s","i","g","n","i","f","i","c","a","n","t">>,
       <<"n","o"," ","a","d","v","e","r","s","e">>,
       <<"n","o","n","e"," ","f","o","u","n","d">> >>

keywords ==
    << <<"c","o","n","v","i","c","t","e","d">>,
       <<"s","a","n","c","t","i","o","n","e","d">>,
       <<"g","u","i","l","t","y">>,
       <<"f","r","a","u","d">>,
       <<"m","o","n","e","y"," ","l","a","u","n","d","e","r","i","n","g">>,
       <<"a","r","r","e","s","t","e","d">>,
       <<"f","i","n","e">>,
       <<"p","e","n","a","l","t","y">>,
       <<"b","a","n">> >>

Min(a, b) == IF a < b THEN a ELSE b

Max(a, b) == IF a > b THEN a ELSE b

\* Math.round(num / den) for den > 0: the nearest integer, ties towards +infinity
Round(num, den) == (2 * num + den) \div (2 * den)

\* a bug: the score of a text without a safe pattern starts at 1 instead of 3
CategoryScore_BaseOne(text, lower) ==
    IF \E p \in 1..Len(SafePatterns) : includes(lower, SafePatterns[p]) THEN 10
    ELSE Min(100, 10 + (IF Len(text) > 100 THEN 20 ELSE 0)
                     + (IF Len(text) > 300 THEN 20 ELSE 0)
                     + 15 * Cardinality({k \in 1..Len(keywords) : includes(lower, keywords[k])}))

\* analyzeCategory(text), in tenths: the part after the lower-casing (lines 33-46)
CategoryScore(text, lower) ==
    IF \E p \in 1..Len(SafePatterns) : includes(lower, SafePatterns[p]) THEN 10
    ELSE Min(100, 30 + (IF Len(text) > 100 THEN 20 ELSE 0)
                     + (IF Len(text) > 300 THEN 20 ELSE 0)
                     + 15 * Cardinality({k \in 1..Len(keywords) : includes(lower, keywords[k])}))

\* a bug: the test for an empty text is missing
analyzeCategory_NoEmptyTest(text) ==
    CategoryScore(text, SubSeq(toLowerCase(text), 1, Len(text)))

\* analyzeCategory(text), in tenths (lines 28-47)
analyzeCategory(text) ==
    IF Falsy(text) THEN 0 ELSE CategoryScore(text, SubSeq(toLowerCase(text), 1, Len(text)))

\* a bug: the sanctions term is subtracted
severityRaw_SanctionsSubtracted(sanc, pep, lit, comp) == 20 * pep + 15 * lit + 10 * comp - 25 * sanc

\* severityRaw in hundredths, from the sub-scores in tenths (line 57)
severityRaw(sanc, pep, lit, comp) == 25 * sanc + 20 * pep + 15 * lit + 10 * comp

\* a bug: the floor of 10 is missing
severityNormalized_NoFloor(raw) == Min(4000, raw)

\* severityNormalized as a numerator over 40 (line 58)
severityNormalized(raw) == Min(4000, Max(400, raw))

\* likelihoodRaw in hundredths (line 61)
likelihoodRaw(rep, comp, lit) == 25 * rep + 20 * comp + 10 * lit

\* likelihoodNormalized as a numerator over 35 (line 62)
likelihoodNormalized(raw) == Min(3500, Max(350, raw))

\* a bug: Math.floor in place of Math.round
residualRisk_Floor(sev, like, base) ==
    (sev * like * Pow10(base.e) + base.n * 140000) \div (2 * 140000 * Pow10(base.e))

\* Math.round((calculatedRisk + baseRiskScore) / 2), with calculatedRisk =
\* (sev/40 * like/35) / 100 and baseRiskScore = base.n / 10^base.e (lines 65-66)
residualRisk(sev, like, base) ==
    Round(sev * like * Pow10(base.e) + base.n * 140000, 2 * 140000 * Pow10(base.e))

\* steps 2 to 4 of the memo (lines 56-66), from the five sub-scores
Derived(litScore, sancScore, repScore, pepScore, compScore, sev, like, baseRiskScore) ==
    [severity     |-> Round(sev, 40),
     likelihood   |-> Round(like, 35),
     residualRisk |-> residualRisk(sev, like, baseRiskScore),
     scores       |-> [litigation |-> litScore, sanctions |-> sancScore,
                       reputation |-> repScore, pep |-> pepScore,
                       compliance |-> compScore]]

FromScores(litScore, sancScore, repScore, pepScore, compScore, baseRiskScore) ==
    Derived(litScore, sancScore, repScore, pepScore, compScore,
            severityNormalized(severityRaw(sancScore, pepScore, litScore, compScore)),
            likelihoodNormalized(likelihoodRaw(repScore, compScore, litScore)),
            baseRiskScore)

\* the analytics memo for a non-null riskData (lines 24-101, without the trend)
Analytics(report) ==
    FromScores(analyzeCategory(report.litigation), analyzeCategory(report.sanctions),
               analyzeCategory(report.reputation), analyzeCategory(report.pepExposure),
               analyzeCategory(report.complianceGaps), report.riskScore)

\* the analytics memo (lines 21-102): null while there is no riskData
LiveAnalytics(riskData) ==
    IF ~riskData.present THEN [present |-> FALSE]
    ELSE [present |-> TRUE, value |-> Analytics(riskData.report)]

(***************************************************************************)
(* components/LiveRiskDashboard: the trend simulation (lines 68-78)        *)
(*                                                                         *)
(* Math.random() is a draw k / RandomDen with k in 0..RandomDen-1, a value *)
(* of [0,1).  A sample is kept as a numerator over TrendDen(days), which   *)
(* makes residualRisk + noise + bias an exact rational.                    *)
(***************************************************************************)
RandomDen == 8

RECURSIVE parseIntFrom(_, _)
parseIntFrom(s, acc) ==
    IF s = <<>> \/ ~IsDigit(s[1]) THEN acc
    ELSE parseIntFrom(Tail(s), 10 * acc + DigitVal(s[1]))

\* parseInt(timeRange), for a string that starts with a digit
parseInt(s) == parseIntFrom(s, 0)

TrendDen(days) == 2 * RandomDen * days

\* const volatility = residualRisk > 50 ? 12 : 5
volatility(risk) == IF risk > 50 THEN 12 ELSE 5

\* Math.floor(days * 0.6)
biasStart(days) == (days * 6) \div 10

\* (Math.random() - 0.5) * volatility, over TrendDen(days)
noise(risk, days, k) == (2 * k - RandomDen) * volatility(risk) * days

\* the bias (i - biasStart) * (0.5 * (30 / days)) or 0, over TrendDen(days)
bias(risk, days, i) ==
    IF i > biasStart(days) /\ risk > 60
    THEN (i - biasStart(days)) * 15 * 2 * RandomDen
    ELSE 0

\* a bug: the ceiling of 98 is missing
trendPoint_NoCeiling(risk, days, i, k) ==
    Max(5 * TrendDen(days),
        risk * TrendDen(days) + noise(risk, days, k) + bias(risk, days, i))

\* Math.max(5, Math.min(98, residualRisk + noise + bias)), over TrendDen(days)
trendPoint(risk, days, i, k) ==
    Max(5 * TrendDen(days),
        Min(98 * TrendDen(days),
            risk * TrendDen(days) + noise(risk, days, k) + bias(risk, days, i)))

(***************************************************************************)
(* components/GlobalAgent: the sort of fetchUpdates (lines 517-519)        *)
(*                                                                         *)
(* new Date(x).getTime() is NaN or a number of milliseconds, kept as whole *)
(* days and the milliseconds within the day.  A timestamp string is read   *)
(* in the form the prompt asks for, "DD MMM YYYY", at midnight without a   *)
(* time-zone offset; any other string is not a date.                       *)
(***************************************************************************)
kTimestamp == <<"t","i","m","e","s","t","a","m","p">>

kCategory == <<"c","a","t","e","g","o","r","y">>

MonthNames == <<<<"J","a","n">>, <<"F","e","b">>, <<"M","a","r">>, <<"A","p","r">>, <<"M","a","y">>, <<"J","u","n">>, <<"J","u","l">>, <<"A","u","g">>, <<"S","e","p">>, <<"O","c","t">>, <<"N","o","v">>, <<"D","e","c">>>>

MsPerDay == 86400000

NaN == [nan |-> TRUE, day |-> 0, ms |-> 0]

\* the time of day days and ms milliseconds
Time(day, ms) == [nan |-> FALSE, day |-> day, ms |-> ms]

\* the time value t1 is later than the time value t2
Later(t1, t2) == t1.day > t2.day \/ (t1.day = t2.day /\ t1.ms > t2.ms)

\* the day number of the civil date y-m-d, counted from 1970-01-01
DaysFromCivil(y, m, d) ==
    LET yy  == IF m <= 2 THEN y - 1 ELSE y
        era == yy \div 400
        yoe == yy - era * 400
        doy == (153 * (IF m > 2 THEN m - 3 ELSE m + 9) + 2) \div 5 + d - 1
        doe == yoe * 365 + yoe \div 4 - yoe \div 100 + doy
    IN  era * 146097 + doe - 719468

IsDateText(s) ==
    /\ Len(s) = 11
    /\ IsDigit(s[1]) /\ IsDigit(s[2]) /\ s[3] = " " /\ s[7] = " "
    /\ \E m \in 1..12 : MonthNames[m] = SubSeq(s, 4, 6)
    /\ \A i \in 8..11 : IsDigit(s[i])
    /\ 10 * DigitVal(s[1]) + DigitVal(s[2]) \in 1..31

\* Date.parse of a string
DateParse(s) ==
    IF IsDateText(s)
    THEN Time(DaysFromCivil(parseInt(SubSeq(s, 8, 11)),
                            CHOOSE m \in 1..12 : MonthNames[m] = SubSeq(s, 4, 6),
                            parseInt(SubSeq(s, 1, 2))), 0)
    ELSE NaN

\* new Date(v).getTime() for v a string, a number, a boolean, null or undefined
getTime(v) ==
    IF v.t = "string" THEN DateParse(v.s)
    ELSE IF v.t = "number"
    THEN Time((v.n \div Pow10(v.e)) \div MsPerDay, (v.n \div Pow10(v.e)) % MsPerDay)
    ELSE IF v.t = "true" THEN Time(0, 1)
    ELSE IF v.t \in {"false", "null"} THEN Time(0, 0)
    ELSE NaN

\* the sign of new Date(b.timestamp).getTime() - new Date(a.timestamp).getTime(),
\* with NaN taken as +0 the way Array.prototype.sort takes it
Difference(ta, tb) ==
    IF ta.nan \/ tb.nan THEN 0
    ELSE IF Later(tb, ta) THEN 1
    ELSE IF Later(ta, tb) THEN 0 - 1
    ELSE 0

Compare(a, b) == Difference(getTime(Prop(a, kTimestamp)), getTime(Prop(b, kTimestamp)))

\* the comparator is a consistent comparator for the elements of data
Consistent(data) ==
    \A i, j, k \in 1..Len(data) :
        (Compare(data[i], data[j]) = 0 /\ Compare(data[j], data[k]) = 0)
            => Compare(data[i], data[k]) = 0

\* x inserted into the sorted sequence s behind every element it does not precede
RECURSIVE InsertSorted(_, _)
InsertSorted(s, x) ==
    IF s = <<>> THEN <<x>>
    ELSE IF Compare(s[1], x) > 0 THEN <<x>> \o s
    ELSE <<s[1]>> \o InsertSorted(Tail(s), x)

\* the stable sort by a consistent comparator
RECURSIVE StableSort(_)
StableSort(data) ==
    IF data = <<>> THEN <<>>
    ELSE InsertSorted(StableSort(SubSeq(data, 1, Len(data) - 1)), data[Len(data)])

Orderings(data) ==
    {[i \in 1..Len(data) |-> data[p[i]]] :
        p \in {q \in [1..Len(data) -> 1..Len(data)] :
                  \A i, j \in 1..Len(data) : i # j => q[i] # q[j]}}

\* a bug: the comparator reads the timestamp with a?.timestamp and never throws
SortOutcomes_NullSafe(data) ==
    IF data.t # "array" THEN {Threw("TypeError")}
    ELSE IF Consistent(data.kids) THEN {Returned(StableSort(data.kids))}
    ELSE {Returned(p) : p \in Orderings(data.kids)}

\* data.sort(...): what it may return or throw.  Reading the timestamp of null
\* throws a TypeError, and a sort of two or more elements compares each of
\* them; with a comparator that is not consistent the order is left to the
\* implementation.
SortOutcomes(data) ==
    IF data.t # "array" THEN {Threw("TypeError")}
    ELSE IF Len(data.kids) >= 2 /\ \E i \in 1..Len(data.kids) : data.kids[i].t = "null"
    THEN {Threw("TypeError")}
    ELSE IF Consistent(data.kids) THEN {Returned(StableSort(data.kids))}
    ELSE {Returned(p) : p \in Orderings(data.kids)}

(***************************************************************************)
(* What the backend may answer                                             *)
(***************************************************************************)
MaxChunks == 2

\* how far beyond the excerpt length the longest response text reaches
ExtraLen == 40

RECURSIVE Stringify(_)
Stringify(v) ==
    IF v.t = "null" THEN <<"n","u","l","l">>
    ELSE IF v.t = "true" THEN <<"t","r","u","e">>
    ELSE IF v.t = "false" THEN <<"f","a","l","s","e">>
    ELSE IF v.t = "number" THEN NumberToString(v.n, v.e)
    ELSE IF v.t = "string" THEN <<"\"">> \o v.s \o <<"\"">>
    ELSE IF v.t = "array" THEN
        <<"[">> \o join([i \in 1..Len(v.kids) |-> Stringify(v.kids[i])], <<",">>) \o <<"]">>
    ELSE <<"{">> \o join([i \in 1..Len(v.keys) |->
                            <<"\"">> \o v.keys[i] \o <<"\"", ":">> \o Stringify(v.kids[i])],
                        <<",">>) \o <<"}">>

\* n characters "abc...zabc..."
Filler(n) == [i \in 1..n |-> LowerCase[((i - 1) % 26) + 1]]

AcmeText == <<"A","c","m","e"," ","C","o","r","p"," ","i","s"," ","a"," ","t","r","a","d","i","n","g"," ","c","o","m","p","a","n","y",".">>

NoAdverseText == <<"N","o"," ","s","i","g","n","i","f","i","c","a","n","t"," ","a","d","v","e","r","s","e"," ","r","e","c","o","r","d","s"," ","i","d","e","n","t","i","f","i","e","d"," ","i","n"," ","p","u","b","l","i","c"," ","s","o","u","r","c","e","s",".">>

SanctionedText == <<"E","n","t","i","t","y"," ","w","a","s"," ","s","a","n","c","t","i","o","n","e","d"," ","a","n","d"," ","f","i","n","e","d"," ","f","o","r"," ","f","r","a","u","d"," ","b","y"," ","r","e","g","u","l","a","t","o","r","s"," ","i","n"," ","2","0","2","2",".">>

\* the values the model may supply for one of the six text keys (Undefined: key absent)
FieldValues ==
    { Undefined, JNull, JStr(<<>>), JStr(AcmeText), JStr(NoAdverseText),
      JNum(7, 0), JNum(-25, 1), JBool(TRUE), JBool(FALSE),
      JArr(<<>>), JArr(<<JStr(<<"x">>), JStr(<<"y">>)>>), JArr(<<JStr(<<>>)>>),
      JObj(<<>>, <<>>),
      JObj(<< <<"l","i","t","i","g","a","t","i","o","n","C","o","u","n","t">> >>, <<JNum(2, 0)>>),
      JObj(<< <<"c","a","s","e","L","i","s","t">>, <<"Y","e","a","r">> >>,
           << JArr(<< JObj(<< <<"c","o","u","r","t">>, <<"o","p","e","n">> >>,
                           << JStr(<<"H","C">>), JBool(TRUE) >>),
                      JObj(<<>>, <<>>) >>),
              JNull >>) }

\* the values the model may supply for riskScore
RiskValues ==
    { Undefined, JNum(0, 0), JNum(5, 0), JNum(50, 0), JNum(100, 0), JNum(-5, 0), JNum(150, 0),
      JNum(-300, 0), JNum(1000, 0), JNum(425, 1), JStr(<<"8","0">>), JNull, JBool(TRUE),
      JObj(<<>>, <<>>) }

TextKeys == {kEntityInfo, kLitigation, kSanctions, kReputation, kPepExposure, kComplianceGaps}

\* the object { k: v, riskScore: rs }, a key being left out when its value is Undefined
ObjectOf(k, v, rs) ==
    JObj((IF v.t = "undefined" THEN <<>> ELSE <<k>>) \o (IF rs.t = "undefined" THEN <<>> ELSE <<kRiskScore>>),
         (IF v.t = "undefined" THEN <<>> ELSE <<v>>) \o (IF rs.t = "undefined" THEN <<>> ELSE <<rs>>))

FullObject ==
    JObj(<<kEntityInfo, kLitigation, kSanctions, kReputation, kPepExposure, kComplianceGaps, kRiskScore>>,
         <<JStr(AcmeText), JStr(NoAdverseText), JStr(SanctionedText), JStr(<<>>),
           JArr(<<JStr(<<"x">>)>>), JNull, JNum(35, 0)>>)

SmallObject == JObj(<<kLitigation, kRiskScore>>, <<JStr(<<"o","k">>), JNum(20, 0)>>)

ObjectTexts ==
    {Stringify(ObjectOf(k, v, rs)) : k \in TextKeys, v \in FieldValues, rs \in RiskValues}
    \cup {Stringify(FullObject), Stringify(SmallObject)}

Preambles ==
    { <<>>, <<"H","e","r","e"," ","i","s"," ","t","h","e"," ","r","e","p","o","r","t",":"," ">>,
      <<"N","o","t","e"," ","{","d","r","a","f","t","}"," ">>, <<"\n", " ">> }

Postambles ==
    { <<>>, <<" ","H","o","p","e"," ","t","h","i","s"," ","h","e","l","p","s",".">>,
      <<" ","a","n","d"," ","{","a","l","s","o","}"," ">>, <<" ", "\n">> }

WrappedTexts ==
    {pre \o Stringify(o) \o post :
        pre \in Preambles, o \in {FullObject, SmallObject, JNull, JArr(<<JNum(1, 0)>>)}, post \in Postambles}

\* responses cut off in the middle
TruncatedTexts ==
    {SubSeq(t, 1, n) : t \in {Stringify(SmallObject)}, n \in 0..Len(Stringify(SmallObject))}
    \cup {SubSeq(Stringify(FullObject), 1, n) : n \in 0..Len(Stringify(FullObject))}

OddTexts ==
    { <<>>, <<"n","u","l","l">>, <<"[","1","]">>, <<"5">>, <<"\"","s","\"">>, <<"t","r","u","e">>,
      <<"I"," ","c","o","u","l","d"," ","n","o","t"," ","f","i","n","d"," ","a","n","y","t","h","i","n","g",".">>,
      <<"{">>, <<"}">>, <<"}","{">>, <<"{","n","u","l","l","}">>,
      Stringify(SmallObject) \o <<" ","j","u","n","k"," ">> \o Stringify(SmallObject) }

\* two JSON objects with other text between them
TwoObjects == {SmallObject, FullObject, JObj(<<>>, <<>>)}

Separators == { <<" ","j","u","n","k"," ">>, <<"\n">>, <<" ","o","r",":"," ">> }

TwoObjectTexts ==
    {Stringify(a) \o sep \o Stringify(b) : a \in TwoObjects, b \in TwoObjects, sep \in Separators}

\* prose and broken JSON around the excerpt length
LongTexts ==
    {pre \o Filler(n) :
        pre \in {<<>>, <<"{">>},
        n \in {ExcerptLen - 1, ExcerptLen, ExcerptLen + 1, ExcerptLen + ExtraLen}}

ResponseTexts ==
    ObjectTexts \cup WrappedTexts \cup TruncatedTexts \cup OddTexts \cup TwoObjectTexts \cup LongTexts

ChunkKinds ==
    { [web |-> TRUE, uri |-> Some(<<"u","1">>), title |-> Some(<<"A">>)],
      [web |-> TRUE, uri |-> Some(<<"u","2">>), title |-> Some(<<"B">>)],
      [web |-> FALSE, uri |-> None, title |-> None],
      [web |-> TRUE, uri |-> None, title |-> Some(<<"A">>)],
      [web |-> TRUE, uri |-> Some(<<>>), title |-> Some(<<"A">>)],
      [web |-> TRUE, uri |-> Some(<<"u","1">>), title |-> None],
      [web |-> TRUE, uri |-> Some(<<"u","1">>), title |-> Some(<<>>)] }

ChunkLists == UNION {[1..n -> ChunkKinds] : n \in 0..MaxChunks}

BackendFails == [fails |-> TRUE, text |-> None, hasChunks |-> FALSE, chunks |-> <<>>]

BackendAnswers(text, hasChunks, chunks) ==
    [fails |-> FALSE, text |-> text, hasChunks |-> hasChunks, chunks |-> chunks]

\* what generateContent may do for analyzeEntityRisk
EntityBackends ==
    {BackendFails, BackendAnswers(None, FALSE, <<>>)}
    \cup {BackendAnswers(Some(t), FALSE, <<>>) : t \in ResponseTexts}
    \cup {BackendAnswers(Some(t), TRUE, cs) :
             t \in {Stringify(SmallObject), <<"n","u","l","l">>}, cs \in ChunkLists}

(***************************************************************************)
(* The state machine                                                       *)
(***************************************************************************)
NoSettled == [kind |-> "none"]

NoAnalysis == [present |-> FALSE]

\* the trend simulation before the memo has run
NoTrend == [risk |-> 0, days |-> 0, len |-> 0, last |-> 0, noise |-> 0, bias |-> 0, done |-> FALSE]

NoHover == [present |-> FALSE]

TrendIdle ==
    /\ timeRange = <<"3","0">>
    /\ trend = NoTrend
    /\ hoverData = NoHover

\* the state after the first render of App: the console is mounted and empty
UiIdle ==
    /\ currentView = "DASHBOARD"
    /\ mount = 1
    /\ query = <<>>
    /\ loading = FALSE
    /\ result = [present |-> FALSE]
    /\ error = None
    /\ inflight = {}
    /\ history = <<>>

CategoryIds ==
    << <<"L","I","T","I","G","A","T","I","O","N">>,
       <<"S","A","N","C","T","I","O","N","S">>,
       <<"R","E","P","U","T","A","T","I","O","N">>,
       <<"P","E","P">>,
       <<"C","O","M","P","L","I","A","N","C","E">> >>

\* GlobalAgent is not mounted yet; its state variables hold their initial values
AgentIdle ==
    /\ agentMount = 0
    /\ events = <<>>
    /\ agentLoading = TRUE
    /\ selectedCategories = CategoryIds
    /\ fetches = {}
    /\ fetched = 0

\* no function has been applied
NoValue == [applied |-> FALSE]

FunIdle ==
    /\ input = NoValue
    /\ output = NoValue

ExtIdle == TrendIdle /\ UiIdle /\ AgentIdle /\ FunIdle

Idle ==
    /\ call = "idle"
    /\ settled = NoSettled
    /\ recentRiskAnalysis = NoAnalysis
    /\ analytics = [present |-> FALSE]
    /\ feedCall = "idle"
    /\ feedSettled = NoSettled
    /\ ExtIdle

Init ==
    /\ backend \in EntityBackends
    /\ Idle

\* SearchDashboard.handleSearch up to the await: analyzeEntityRisk is called
\* and runs up to its own await of generateContent
AnalyzeEntityRisk ==
    /\ call = "idle"
    /\ call' = "pending"
    /\ settled' = NoSettled
    /\ UNCHANGED <<backend, recentRiskAnalysis, analytics, feedCall, feedSettled>>
    /\ UNCHANGED extVars

\* generateContent resolves: the rest of analyzeEntityRisk runs
GenerateContentResolves ==
    /\ call = "pending"
    /\ ~backend.fails
    /\ settled' = analyzeEntityRisk(backend)
    /\ call' = settled'.kind
    /\ UNCHANGED <<backend, recentRiskAnalysis, analytics, feedCall, feedSettled>>
    /\ UNCHANGED extVars

\* generateContent rejects: the outer catch runs
GenerateContentRejects ==
    /\ call = "pending"
    /\ backend.fails
    /\ settled' = analyzeEntityRisk(backend)
    /\ call' = settled'.kind
    /\ UNCHANGED <<backend, recentRiskAnalysis, analytics, feedCall, feedSettled>>
    /\ UNCHANGED extVars

\* handleSearch after the await resolved: onAnalysisComplete(resultObj),
\* which is App's setRecentRiskAnalysis
HandleSearchResolved ==
    /\ call = "resolved"
    /\ recentRiskAnalysis' = [present |-> TRUE, report |-> settled.report, sources |-> settled.sources]
    /\ call' = "idle"
    /\ UNCHANGED <<backend, settled, analytics, feedCall, feedSettled>>
    /\ UNCHANGED extVars

\* handleSearch after the await rejected: the catch block
HandleSearchRejected ==
    /\ call = "rejected"
    /\ call' = "idle"
    /\ UNCHANGED <<backend, settled, recentRiskAnalysis, analytics, feedCall, feedSettled>>
    /\ UNCHANGED extVars

\* LiveRiskDashboard renders with riskData = recentRiskAnalysis
LiveRiskDashboardRender ==
    /\ analytics' = LiveAnalytics(recentRiskAnalysis)
    /\ UNCHANGED <<backend, call, settled, recentRiskAnalysis, feedCall, feedSettled>>
    /\ UNCHANGED extVars

Next ==
    \/ AnalyzeEntityRisk
    \/ GenerateContentResolves
    \/ GenerateContentRejects
    \/ HandleSearchResolved
    \/ HandleSearchRejected
    \/ LiveRiskDashboardRender

Spec == Init /\ [][Next]_vars

(***************************************************************************)
(* getGlobalRiskUpdates on its own                                         *)
(***************************************************************************)
EventA ==
    JObj(<< <<"h","e","a","d","l","i","n","e">>, <<"c","a","t","e","g","o","r","y">> >>,
         << JStr(<<"B","a","n","k"," ","f","i","n","e","d">>),
            JStr(<<"C","O","M","P","L","I","A","N","C","E">>) >>)

EventB ==
    JObj(<< <<"h","e","a","d","l","i","n","e">>, <<"c","a","t","e","g","o","r","y">> >>,
         << JStr(<<"M","i","n","i","s","t","e","r"," ","p","r","o","b","e","d">>),
            JStr(<<"P","E","P">>) >>)

EventLists == UNION {[1..n -> {EventA, EventB}] : n \in 0..2}

FeedPreambles ==
    { <<>>, <<"H","e","r","e"," ","a","r","e"," ","t","h","e"," ","s","t","o","r","i","e","s",":"," ">>,
      <<"s","e","e"," ","[","n","o","t","e","]"," ">> }

FeedPostambles ==
    { <<>>, <<" ","d","o","n","e",".">>,
      <<" ","(","s","o","u","r","c","e","s"," ","[","1","]"," ","v","e","r","i","f","i","e","d",")">> }

FeedTexts ==
    {pre \o Stringify(JArr(es)) \o post : pre \in FeedPreambles, es \in EventLists, post \in FeedPostambles}
    \cup {SubSeq(Stringify(JArr(<<EventA, EventB>>)), 1, n) :
             n \in 0..Len(Stringify(JArr(<<EventA, EventB>>)))}
    \cup { <<>>, <<"N","o"," ","n","e","w","s"," ","t","o","d","a","y",".">>,
           <<"[","1","]"," ","a","n","d"," ","[","2","]">>, <<"]","[">>, <<"[">>,
           Stringify(EventA), <<"n","u","l","l">>, <<"5">> }

FeedBackends ==
    {BackendFails, BackendAnswers(None, FALSE, <<>>)}
    \cup {BackendAnswers(Some(t), FALSE, <<>>) : t \in FeedTexts}

InitFeed ==
    /\ backend \in FeedBackends
    /\ Idle

\* GlobalAgent.fetchUpdates up to the await: getGlobalRiskUpdates is called
\* and runs up to its own await of generateContent
GetGlobalRiskUpdates ==
    /\ feedCall = "idle"
    /\ feedCall' = "pending"
    /\ UNCHANGED <<backend, call, settled, recentRiskAnalysis, analytics, feedSettled>>
    /\ UNCHANGED extVars

FeedGenerateContentResolves ==
    /\ feedCall = "pending"
    /\ ~backend.fails
    /\ feedSettled' = getGlobalRiskUpdates(backend)
    /\ feedCall' = feedSettled'.kind
    /\ UNCHANGED <<backend, call, settled, recentRiskAnalysis, analytics>>
    /\ UNCHANGED extVars

FeedGenerateContentRejects ==
    /\ feedCall = "pending"
    /\ backend.fails
    /\ feedSettled' = getGlobalRiskUpdates(backend)
    /\ feedCall' = feedSettled'.kind
    /\ UNCHANGED <<backend, call, settled, recentRiskAnalysis, analytics>>
    /\ UNCHANGED extVars

NextFeed ==
    \/ GetGlobalRiskUpdates
    \/ FeedGenerateContentResolves
    \/ FeedGenerateContentRejects

SpecFeed == InitFeed /\ [][NextFeed]_vars

(***************************************************************************)
(* The analytics engine on its own: any report with riskScore in [0,100]   *)
(***************************************************************************)
\* t followed by filler up to n characters in all
PadTo(t, n) == t \o Filler(n - Len(t))

\* texts of sub-score 0, 1, 7.5, 9.5 (over 100 characters) and 10 (over 300, capped)
CategoryTexts ==
    { <<>>, NoAdverseText, SanctionedText, PadTo(SanctionedText, 101),
      PadTo(keywords[1] \o <<" ">> \o keywords[3] \o <<" ">> \o keywords[6] \o <<" ">>, 301) }

ScoreSamples == {Num(0, 0), Num(5, 0), Num(100, 0), Num(375, 1)}

ArbitraryReports ==
    [entityInfo : {AcmeText}, litigation : CategoryTexts, sanctions : CategoryTexts,
     reputation : CategoryTexts, pepExposure : CategoryTexts, complianceGaps : CategoryTexts,
     riskScore : ScoreSamples]

InitAnalytics ==
    /\ backend = BackendFails
    /\ call = "idle"
    /\ settled = NoSettled
    /\ recentRiskAnalysis \in {[present |-> TRUE, report |-> r, sources |-> <<>>] : r \in ArbitraryReports}
    /\ analytics = [present |-> FALSE]
    /\ feedCall = "idle"
    /\ feedSettled = NoSettled
    /\ ExtIdle

NextAnalytics == LiveRiskDashboardRender

SpecAnalytics == InitAnalytics /\ [][NextAnalytics]_vars

(***************************************************************************)
(* The trend simulation on its own: any residualRisk, any random draws.    *)
(* The samples of one run are drawn independently of each other, so the    *)
(* array under construction is kept as its length and its newest sample.   *)
(***************************************************************************)
PipeIdle ==
    /\ backend = BackendFails
    /\ call = "idle"
    /\ settled = NoSettled
    /\ recentRiskAnalysis = NoAnalysis
    /\ analytics = [present |-> FALSE]
    /\ feedCall = "idle"
    /\ feedSettled = NoSettled

\* values of residualRisk: below, on and above the thresholds 50 and 60, and
\* outside [0,100]
TrendRisks == {0 - 138, 0, 3, 50, 51, 60, 61, 93, 100, 550}

TimeRanges == { <<"3","0">>, <<"6","0">>, <<"9","0">> }

\* the memo starts to run: const days = parseInt(timeRange)
TrendStarted(risk, range) ==
    [risk |-> risk, days |-> parseInt(range), len |-> 0, last |-> 0, noise |-> 0, bias |-> 0,
     done |-> FALSE]

InitTrend ==
    /\ PipeIdle
    /\ timeRange = <<"3","0">>
    /\ \E risk \in TrendRisks : trend = TrendStarted(risk, timeRange)
    /\ hoverData = NoHover
    /\ UiIdle
    /\ AgentIdle
    /\ FunIdle

\* one call of the Array.from callback, with index i = trend.len
TrendPoint ==
    /\ ~trend.done
    /\ trend.len < trend.days
    /\ \E k \in 0..(RandomDen - 1) :
          trend' = [trend EXCEPT !.len = trend.len + 1,
                                 !.noise = noise(trend.risk, trend.days, k),
                                 !.bias = bias(trend.risk, trend.days, trend.len),
                                 !.last = trendPoint(trend.risk, trend.days, trend.len, k)]
    /\ UNCHANGED <<pipeVars, timeRange, hoverData, uiVars, agentVars, funVars>>

\* Array.from has made length-many calls: the memo returns trendPoints
TrendReturn ==
    /\ ~trend.done
    /\ trend.len = trend.days
    /\ trend' = [trend EXCEPT !.done = TRUE]
    /\ UNCHANGED <<pipeVars, timeRange, hoverData, uiVars, agentVars, funVars>>

\* a range button is clicked: setTimeRange(range); a changed timeRange makes
\* the memo run again
SetTimeRange ==
    /\ trend.done
    /\ \E range \in TimeRanges :
          /\ timeRange' = range
          /\ trend' = IF range = timeRange THEN trend ELSE TrendStarted(trend.risk, range)
    /\ UNCHANGED <<pipeVars, hoverData, uiVars, agentVars, funVars>>

\* the days a hover may point at: the first and the last of the series
HoverDays(days) == {1, days}

\* a bug: no useMemo, every render runs the simulation again
SetHoverData_NoMemo ==
    /\ trend.done
    /\ hoverData' \in ({NoHover} \cup {[present |-> TRUE, day |-> d] : d \in HoverDays(trend.days)})
                      \ {hoverData}
    /\ trend' = TrendStarted(trend.risk, timeRange)
    /\ UNCHANGED <<pipeVars, timeRange, uiVars, agentVars, funVars>>

\* handleMouseMove (lines 107-122) and onMouseLeave (line 315): setHoverData
\* makes the component render again; riskData and timeRange are as they were,
\* so useMemo (lines 21, 102) returns the analytics it holds
SetHoverData ==
    /\ trend.done
    /\ hoverData' \in ({NoHover} \cup {[present |-> TRUE, day |-> d] : d \in HoverDays(trend.days)})
                      \ {hoverData}
    /\ UNCHANGED <<pipeVars, timeRange, trend, uiVars, agentVars, funVars>>

\* App hands a new riskData to the mounted dashboard (a search that was in
\* flight completes): a changed dependency, the memo runs again
RiskDataChanges ==
    /\ trend.done
    /\ \E risk \in TrendRisks : trend' = TrendStarted(risk, timeRange)
    /\ UNCHANGED <<pipeVars, timeRange, hoverData, uiVars, agentVars, funVars>>

NextTrend ==
    \/ TrendPoint
    \/ TrendReturn
    \/ SetTimeRange
    \/ SetHoverData
    \/ RiskDataChanges

SpecTrend == InitTrend /\ [][NextTrend]_vars

(***************************************************************************)
(* components/SearchDashboard and App: the investigation console           *)
(*                                                                         *)
(* App renders SearchDashboard only while currentView is DASHBOARD, so a   *)
(* change of view unmounts it and a return mounts a new instance with new  *)
(* state.  A state setter called by a handleSearch of an unmounted         *)
(* instance changes nothing; onAnalysisComplete is App's setter and always *)
(* takes effect.  resultObj is kept without analyzedAt, the day's date.    *)
(***************************************************************************)
MaxSearches == 2

MaxMounts == 2

UnableToComplete == <<"U","n","a","b","l","e"," ","t","o"," ","c","o","m","p","l","e","t","e"," ","i","n","v","e","s","t","i","g","a","t","i","o","n","."," ","P","l","e","a","s","e"," ","c","h","e","c","k"," ","y","o","u","r"," ","A","P","I"," ","k","e","y"," ","o","r"," ","t","r","y"," ","a","g","a","i","n"," ","l","a","t","e","r",".">>

RECURSIVE trimStart(_)
trimStart(s) == IF s # <<>> /\ s[1] \in Ws THEN trimStart(Tail(s)) ELSE s

RECURSIVE trimEnd(_)
trimEnd(s) ==
    IF s # <<>> /\ s[Len(s)] \in Ws THEN trimEnd(SubSeq(s, 1, Len(s) - 1)) ELSE s

\* String.prototype.trim
trim(s) == trimEnd(trimStart(s))

NoResult == [present |-> FALSE]

\* const resultObj = { report, sources, analyzedAt, entityName: searchTerm }
resultObj(data, searchTerm) ==
    [present |-> TRUE, report |-> data.report, sources |-> data.sources,
     entityName |-> searchTerm]

\* what is typed into the input box
Queries == { <<>>, <<" ">>, <<"a","c","m","e">>, <<" ","b","o","l","t">> }

\* what generateContent may do for a search of the console
ConsoleBackends ==
    { BackendFails,
      BackendAnswers(Some(Stringify(SmallObject)), FALSE, <<>>),
      BackendAnswers(Some(<<"n","o"," ","j","s","o","n">>), FALSE, <<>>) }

InitConsole ==
    /\ PipeIdle
    /\ TrendIdle
    /\ UiIdle
    /\ AgentIdle
    /\ FunIdle

\* onChange of the input box: setQuery(e.target.value)
SetQuery ==
    /\ currentView = "DASHBOARD"
    /\ \E q \in Queries : q # query /\ query' = q
    /\ UNCHANGED <<pipeVars, trendVars, funVars, agentVars, currentView, mount, loading, result,
                   error, inflight, history>>

\* a bug: the search term is the trimmed query
HandleSearch_Trimmed ==
    /\ currentView = "DASHBOARD"
    /\ ~loading
    /\ Len(history) + Cardinality(inflight) < MaxSearches
    /\ IF trim(query) = <<>>
       THEN UNCHANGED <<query, loading, error, result, inflight>>
       ELSE /\ \E b \in ConsoleBackends :
                 inflight' = inflight \cup
                     {[id       |-> Len(history) + Cardinality(inflight) + 1,
                       inst     |-> mount,
                       term     |-> trim(query),
                       backend  |-> b,
                       overlaps |-> inflight # {}]}
            /\ query' = <<>>
            /\ loading' = TRUE
            /\ error' = None
            /\ result' = NoResult
    /\ UNCHANGED <<pipeVars, trendVars, funVars, agentVars, currentView, mount, history>>

\* a bug: error and result are not cleared when a search starts
HandleSearch_NoClear ==
    /\ currentView = "DASHBOARD"
    /\ ~loading
    /\ Len(history) + Cardinality(inflight) < MaxSearches
    /\ IF trim(query) = <<>>
       THEN UNCHANGED <<query, loading, inflight>>
       ELSE /\ \E b \in ConsoleBackends :
                 inflight' = inflight \cup
                     {[id       |-> Len(history) + Cardinality(inflight) + 1,
                       inst     |-> mount,
                       term     |-> query,
                       backend  |-> b,
                       overlaps |-> inflight # {}]}
            /\ query' = <<>>
            /\ loading' = TRUE
    /\ UNCHANGED <<pipeVars, trendVars, funVars, agentVars, currentView, mount, history, error,
                   result>>

\* the form is submitted: handleSearch up to its await (lines 37-48).  The
\* Scan button is disabled while loading (line 128), and a form whose submit
\* button is disabled is not submitted by the Enter key either.
HandleSearch ==
    /\ currentView = "DASHBOARD"
    /\ ~loading
    /\ Len(history) + Cardinality(inflight) < MaxSearches
    /\ IF trim(query) = <<>>
       THEN UNCHANGED <<query, loading, error, result, inflight>>
       ELSE /\ \E b \in ConsoleBackends :
                 inflight' = inflight \cup
                     {[id       |-> Len(history) + Cardinality(inflight) + 1,
                       inst     |-> mount,
                       term     |-> query,
                       backend  |-> b,
                       overlaps |-> inflight # {}]}
            /\ query' = <<>>
            /\ loading' = TRUE
            /\ error' = None
            /\ result' = NoResult
    /\ UNCHANGED <<pipeVars, trendVars, funVars, agentVars, currentView, mount, history>>

\* the instance that made the call c is still the one on the screen
Mounted(c) == currentView = "DASHBOARD" /\ c.inst = mount

\* handleSearch after the await, when analyzeEntityRisk resolved with data
\* (lines 49-60 and 65)
SearchResolved(c, data) ==
    /\ data.kind = "resolved"
    /\ IF Mounted(c)
       THEN result' = resultObj(data, c.term) /\ loading' = FALSE
       ELSE UNCHANGED <<result, loading>>
    /\ recentRiskAnalysis' = resultObj(data, c.term)
    /\ UNCHANGED error

\* a bug: the finally block is missing, loading stays true
SearchRejected_NoFinally(c, data) ==
    /\ data.kind = "rejected"
    /\ IF Mounted(c)
       THEN error' = Some(UnableToComplete)
       ELSE UNCHANGED error
    /\ UNCHANGED <<result, recentRiskAnalysis, loading>>

\* handleSearch after the await, when analyzeEntityRisk rejected (lines 62-65)
SearchRejected(c, data) ==
    /\ data.kind = "rejected"
    /\ IF Mounted(c)
       THEN error' = Some(UnableToComplete) /\ loading' = FALSE
       ELSE UNCHANGED <<error, loading>>
    /\ UNCHANGED <<result, recentRiskAnalysis>>

\* the promise of one pending analyzeEntityRisk call settles
HandleSearchSettles ==
    /\ \E c \in inflight :
          /\ \/ SearchResolved(c, analyzeEntityRisk(c.backend))
             \/ SearchRejected(c, analyzeEntityRisk(c.backend))
          /\ inflight' = inflight \ {c}
          /\ history' = Append(history, c)
    /\ UNCHANGED <<backend, call, settled, analytics, feedCall, feedSettled, trendVars, funVars,
                   agentVars, currentView, mount, query>>

\* the render of GlobalAgent throws: e.category is read on an event that is
\* null (line 542), and with no error boundary React then removes the whole tree
RenderThrows ==
    /\ currentView = "AGENT"
    /\ \E i \in 1..Len(events) : events[i].t = "null"

\* a bug: App forgets the analysis when the view is switched
SetCurrentView_ResetsAnalysis ==
    /\ ~RenderThrows
    /\ \E v \in {"DASHBOARD", "AGENT", "LIVE"} :
          /\ v # currentView
          /\ currentView' = v
          /\ IF v = "DASHBOARD"
             THEN mount < MaxMounts /\ mount' = mount + 1
             ELSE UNCHANGED mount
          /\ IF v = "AGENT"
             THEN /\ agentMount < MaxMounts
                  /\ agentMount' = agentMount + 1
                  /\ fetches' = fetches \cup {[id |-> fetched + 1, inst |-> agentMount + 1]}
                  /\ fetched' = fetched + 1
             ELSE UNCHANGED <<agentMount, fetches, fetched>>
    /\ query' = <<>>
    /\ loading' = FALSE
    /\ result' = NoResult
    /\ error' = None
    /\ events' = <<>>
    /\ agentLoading' = TRUE
    /\ selectedCategories' = CategoryIds
    /\ recentRiskAnalysis' = NoAnalysis
    /\ UNCHANGED <<backend, call, settled, analytics, feedCall, feedSettled, trendVars, funVars,
                   inflight, history>>

\* a sidebar button: setCurrentView(v).  Leaving DASHBOARD unmounts the
\* console and entering it mounts a new instance in its initial state; the
\* same holds of AGENT and GlobalAgent, whose mount effect calls fetchUpdates
\* (lines 528-530), which runs up to its await.
SetCurrentView ==
    /\ ~RenderThrows
    /\ \E v \in {"DASHBOARD", "AGENT", "LIVE"} :
          /\ v # currentView
          /\ currentView' = v
          /\ IF v = "DASHBOARD"
             THEN mount < MaxMounts /\ mount' = mount + 1
             ELSE UNCHANGED mount
          /\ IF v = "AGENT"
             THEN /\ agentMount < MaxMounts
                  /\ agentMount' = agentMount + 1
                  /\ fetches' = fetches \cup {[id |-> fetched + 1, inst |-> agentMount + 1]}
                  /\ fetched' = fetched + 1
             ELSE UNCHANGED <<agentMount, fetches, fetched>>
    /\ query' = <<>>
    /\ loading' = FALSE
    /\ result' = NoResult
    /\ error' = None
    /\ events' = <<>>
    /\ agentLoading' = TRUE
    /\ selectedCategories' = CategoryIds
    /\ UNCHANGED <<pipeVars, trendVars, funVars, inflight, history>>

NextConsole ==
    \/ SetQuery
    \/ HandleSearch
    \/ HandleSearchSettles
    \/ SetCurrentView

SpecConsole == InitConsole /\ [][NextConsole]_vars

(***************************************************************************)
(* components/GlobalAgent: the feed view                                   *)
(***************************************************************************)
MaxFetches == 3

kHeadline == <<"h","e","a","d","l","i","n","e">>

EventOld ==
    JObj(<<kHeadline, kCategory, kTimestamp>>,
         <<JStr(<<"B","a","n","k"," ","f","i","n","e","d">>), JStr(CategoryIds[5]), JStr(<<"0","5"," ","J","a","n"," ","2","0","2","4">>)>>)

EventNew ==
    JObj(<<kHeadline, kCategory, kTimestamp>>,
         <<JStr(<<"M","i","n","i","s","t","e","r"," ","p","r","o","b","e","d">>), JStr(CategoryIds[4]), JStr(<<"0","1"," ","F","e","b"," ","2","0","2","4">>)>>)

\* an event without a timestamp and with a category that is not one of the five
EventOdd == JObj(<<kHeadline, kCategory>>, <<JStr(<<"R","u","m","o","u","r">>), JStr(<<"O","T","H","E","R">>)>>)

\* a dated event without a category
EventBare ==
    JObj(<<kHeadline, kTimestamp>>,
         <<JStr(<<"L","e","a","k">>), JStr(<<"0","1"," ","F","e","b"," ","2","0","2","4">>)>>)

\* the arrays the model may answer with: dated events in either order, an
\* undated event among them, and null elements
AgentLists ==
    { <<>>, <<EventOld>>, <<JNull>>, <<EventOld, EventNew>>, <<EventNew, EventOld>>,
      <<EventOdd, EventOld>>, <<EventOld, EventOdd, EventNew>>, <<JNull, JNull>>,
      <<EventNew, JNull>>, <<EventOld, EventBare>> }

\* what generateContent may do for a refresh of the feed
AgentBackends ==
    {BackendFails, BackendAnswers(Some(<<"N","o"," ","n","e","w","s"," ","t","o","d","a","y",".">>), FALSE, <<>>)}
    \cup {BackendAnswers(Some(Stringify(JArr(es))), FALSE, <<>>) : es \in AgentLists}

\* what the promise of getGlobalRiskUpdates may settle with
AgentSettlements == {getGlobalRiskUpdates(b) : b \in AgentBackends}

\* the categories whose filter button is pressed
ToggledIds == {CategoryIds[4], CategoryIds[5]}

InitAgent ==
    /\ PipeIdle
    /\ TrendIdle
    /\ UiIdle
    /\ AgentIdle
    /\ FunIdle

\* selectedCategories.includes(e.category)
InSelection(e, selection) ==
    /\ Prop(e, kCategory).t = "string"
    /\ \E i \in 1..Len(selection) : selection[i] = Prop(e, kCategory).s

\* const filteredEvents = events.filter(e => selectedCategories.includes(e.category))
filteredEvents == SelectSeq(events, LAMBDA e : InSelection(e, selectedCategories))

\* prev.filter(c => c !== categoryId)
Without(selection, categoryId) == SelectSeq(selection, LAMBDA c : c # categoryId)

\* a bug: a category that is not selected stays unselected
toggleCategory_NeverAdds(prev, categoryId) ==
    IF \E i \in 1..Len(prev) : prev[i] = categoryId
    THEN Without(prev, categoryId)
    ELSE prev

\* the updater of toggleCategory (lines 547-549)
toggleCategory(prev, categoryId) ==
    IF \E i \in 1..Len(prev) : prev[i] = categoryId
    THEN Without(prev, categoryId)
    ELSE Append(prev, categoryId)

\* toggleCategory(categoryId) (lines 545-551)
ToggleCategory ==
    /\ currentView = "AGENT"
    /\ ~RenderThrows
    /\ \E categoryId \in ToggledIds :
          selectedCategories' = toggleCategory(selectedCategories, categoryId)
    /\ UNCHANGED <<pipeVars, trendVars, funVars, uiVars, agentMount, events, agentLoading,
                   fetches, fetched>>

\* the Refresh Data button, which is rendered when loading is false and
\* filteredEvents is empty (lines 643-734): fetchUpdates up to its await
FetchUpdates ==
    /\ currentView = "AGENT"
    /\ ~RenderThrows
    /\ ~agentLoading
    /\ filteredEvents = <<>>
    /\ fetched < MaxFetches
    /\ agentLoading' = TRUE
    /\ fetches' = fetches \cup {[id |-> fetched + 1, inst |-> agentMount]}
    /\ fetched' = fetched + 1
    /\ UNCHANGED <<pipeVars, trendVars, funVars, uiVars, agentMount, events, selectedCategories>>

\* the instance that made the call c is still the one on the screen
AgentMounted(c) == currentView = "AGENT" /\ c.inst = agentMount /\ ~RenderThrows

\* the events after the try/catch of fetchUpdates (lines 515-523): when the
\* await or the sort threw, setEvents is not reached
EventsAfter(data, sorted) ==
    IF data.kind = "resolved" /\ ~sorted.threw THEN sorted.val ELSE events

\* fetchUpdates with setLoading(false) as the last statement of the try block
\* instead of the finally block
FetchSettled_LoadingInTry(c, data, sorted) ==
    /\ feedSettled' = data
    /\ IF AgentMounted(c)
       THEN /\ events' = EventsAfter(data, sorted)
            /\ agentLoading' = (agentLoading /\ ~(data.kind = "resolved" /\ ~sorted.threw))
       ELSE UNCHANGED <<events, agentLoading>>

\* fetchUpdates after its await (lines 516-525), data being what the promise of
\* getGlobalRiskUpdates settled with and sorted what data.sort did
FetchSettled(c, data, sorted) ==
    /\ feedSettled' = data
    /\ IF AgentMounted(c)
       THEN events' = EventsAfter(data, sorted) /\ agentLoading' = FALSE
       ELSE UNCHANGED <<events, agentLoading>>

\* what data.sort does with the value of a resolved promise
SortOf(data) ==
    IF data.kind = "resolved" THEN SortOutcomes(data.value) ELSE {Threw("rejected")}

FetchSettledWith(c, data) == \E sorted \in SortOf(data) : FetchSettled(c, data, sorted)

\* the promise of one pending getGlobalRiskUpdates call settles
FetchUpdatesSettles ==
    /\ \E c \in fetches :
          /\ \E data \in AgentSettlements : FetchSettledWith(c, data)
          /\ fetches' = fetches \ {c}
    /\ UNCHANGED <<backend, call, settled, recentRiskAnalysis, analytics, feedCall,
                   trendVars, funVars, uiVars, agentMount, selectedCategories, fetched>>

NextAgent ==
    \/ SetCurrentView
    \/ ToggleCategory
    \/ FetchUpdates
    \/ FetchUpdatesSettles

SpecAgent == InitAgent /\ [][NextAgent]_vars

(***************************************************************************)
(* ensureString on its own: any JSON value, nested three levels deep       *)
(***************************************************************************)
MaxKids == 2

JsonLeaves == {JNull, JBool(TRUE), JNum(0 - 25, 1), JStr(<<>>), JStr(<<"o","k">>)}

NormKeys == << <<"r","i","s","k","L","e","v","e","l">>, <<"a">>, <<"I","d">>, <<"b">> >>

\* the sequences of at most MaxKids elements of S
KidLists(S) == UNION {[1..n -> S] : n \in 0..Min(MaxKids, Len(NormKeys))}

\* the arrays and the objects whose elements are taken from S
Containers(S) ==
    {JArr(kids) : kids \in KidLists(S)}
    \cup {JObj(SubSeq(NormKeys, 1, Len(kids)), kids) : kids \in KidLists(S)}

JsonLevel1 == Containers(JsonLeaves)

\* a container of level 1 inside an array or an object, alone or behind a leaf
JsonLevel2 ==
    {JArr(<<c>>) : c \in JsonLevel1}
    \cup {JObj(<<NormKeys[1]>>, <<c>>) : c \in JsonLevel1}
    \cup {JArr(<<l, c>>) : l \in JsonLeaves, c \in JsonLevel1}
    \cup {JObj(<<NormKeys[2], NormKeys[1]>>, <<l, c>>) : l \in JsonLeaves, c \in JsonLevel1}

JsonLevel3 == {JArr(<<JObj(<<NormKeys[3]>>, <<c>>)>>) : c \in JsonLevel1}

\* Undefined: the field is missing from the parsed object
JsonValues == {Undefined} \cup JsonLeaves \cup JsonLevel1 \cup JsonLevel2 \cup JsonLevel3

InitNormalize ==
    /\ PipeIdle
    /\ TrendIdle
    /\ UiIdle
    /\ AgentIdle
    /\ input \in {[applied |-> FALSE, val |-> v] : v \in JsonValues}
    /\ output = NoValue

\* ensureString(raw.field) as the report literal calls it, with depth = 0
EnsureString ==
    /\ ~input.applied
    /\ input' = [input EXCEPT !.applied = TRUE]
    /\ output' = [applied |-> TRUE, val |-> ensureString(input.val, 0)]
    /\ UNCHANGED <<pipeVars, trendVars, uiVars, agentVars>>

NextNormalize == EnsureString

SpecNormalize == InitNormalize /\ [][NextNormalize]_vars

(***************************************************************************)
(* Both service calls on JSON that the model wrapped in prose              *)
(***************************************************************************)
\* valid JSON objects, one of them with delimiters inside a string
WrapObjects ==
    { SmallObject, FullObject, JObj(<<>>, <<>>),
      JObj(<<kLitigation>>, <<JStr(<<"a"," ","}"," ","b"," ","["," ","c">>)>>),
      JObj(<<kSanctions, kRiskScore>>,
           <<JArr(<<JObj(<<kEntityInfo>>, <<JStr(<<"x">>)>>), JNull>>), JNum(425, 1)>>) }

\* prose without a brace; square brackets may occur
BracelessPreambles ==
    { <<>>, <<"H","e","r","e"," ","i","s"," ","t","h","e"," ","r","e","p","o","r","t",":"," ">>,
      <<"s","e","e"," ","[","n","o","t","e","]"," ","1",":","\n">> }

BracelessPostambles ==
    { <<>>, <<" ","H","o","p","e"," ","t","h","i","s"," ","h","e","l","p","s",".">>,
      <<"\n","(","s","o","u","r","c","e","s"," ","[","1","]"," ","v","e","r","i","f","i","e","d",")">> }

\* valid JSON arrays
WrapArrays == {JArr(es) : es \in EventLists} \cup {JArr(<<JArr(<<>>), JStr(<<"a"," ","}"," ","b"," ","["," ","c">>)>>)}

\* prose without a square bracket; braces may occur
BracketlessPreambles ==
    { <<>>, <<"H","e","r","e"," ","a","r","e"," ","t","h","e"," ","s","t","o","r","i","e","s",":"," ">>,
      <<"N","o","t","e"," ","{","d","r","a","f","t","}"," ">> }

BracketlessPostambles ==
    { <<>>, <<" ","d","o","n","e",".">>, <<" ","a","n","d"," ","{","a","l","s","o","}"," ">> }

WrappedChunks == {<<>>, <<[web |-> TRUE, uri |-> Some(<<"u","1">>), title |-> Some(<<"A">>)]>>}

WrappedBackends ==
    {BackendAnswers(Some(pre \o Stringify(o) \o post), cs # <<>>, cs) :
        pre \in BracelessPreambles, o \in WrapObjects, post \in BracelessPostambles,
        cs \in WrappedChunks}
    \cup {BackendAnswers(Some(pre \o Stringify(a) \o post), FALSE, <<>>) :
             pre \in BracketlessPreambles, a \in WrapArrays, post \in BracketlessPostambles}

InitWrapped ==
    /\ backend \in WrappedBackends
    /\ Idle

NextWrapped ==
    \/ AnalyzeEntityRisk
    \/ GenerateContentResolves
    \/ GetGlobalRiskUpdates
    \/ FeedGenerateContentResolves

SpecWrapped == InitWrapped /\ [][NextWrapped]_vars

(***************************************************************************)
(* analyzeCategory on its own: texts built from keywords, safe phrases and *)
(* padding, in either case                                                 *)
(***************************************************************************)
MaxKeywords == 3

KeywordSets == {K \in SUBSET (1..Len(keywords)) : Cardinality(K) <= MaxKeywords}

\* the keywords of K from the i-th on, each followed by a space
RECURSIVE Mention(_, _)
Mention(K, i) ==
    IF i > Len(keywords) THEN <<>>
    ELSE (IF i \in K THEN keywords[i] \o <<" ">> ELSE <<>>) \o Mention(K, i + 1)

SafeIntros ==
    { <<>>, <<"N","o"," ","A","d","v","e","r","s","e"," ","m","e","d","i","a","."," ">>, <<"N","O","N","E"," ","F","O","U","N","D",":"," ">>,
      <<"T","h","e","r","e"," ","i","s"," ","n","o"," ","s","i","g","n","i","f","i","c","a","n","t"," ","r","e","c","o","r","d","."," ">> }

\* lengths on both sides of the two thresholds; 0 leaves the text as it is
PadLengths == {0, 100, 101, 300, 301}

BuiltTexts ==
    {PadTo(intro \o Mention(K, 1), n) : intro \in SafeIntros, K \in KeywordSets, n \in PadLengths}

SubScoreTexts ==
    BuiltTexts \cup {SubSeq(toUpperCase(t), 1, Len(t)) : t \in BuiltTexts}
    \cup {SanctionedText, NoAdverseText}

InitCategory ==
    /\ PipeIdle
    /\ TrendIdle
    /\ UiIdle
    /\ AgentIdle
    /\ input \in {[applied |-> FALSE, val |-> t] : t \in SubScoreTexts}
    /\ output = NoValue

\* analyzeCategory(report.<category>) as the memo calls it
AnalyzeCategory ==
    /\ ~input.applied
    /\ input' = [input EXCEPT !.applied = TRUE]
    /\ output' = [applied |-> TRUE, val |-> analyzeCategory(input.val)]
    /\ UNCHANGED <<pipeVars, trendVars, uiVars, agentVars>>

NextCategory == AnalyzeCategory

SpecCategory == InitCategory /\ [][NextCategory]_vars

(***************************************************************************)
(* Steps 2 to 4 of the memo on their own: any five sub-scores in [0,10],   *)
(* with one of them raised                                                 *)
(***************************************************************************)
\* the sub-scores run over 0, 10/GridSteps, 2 * 10/GridSteps, ... 10 (in tenths)
GridSteps == 4

ScoreGrid == {(100 * k) \div GridSteps : k \in 0..GridSteps}

ScoreInputs ==
    [applied : {FALSE}, lit : ScoreGrid, sanc : ScoreGrid, rep : ScoreGrid, pep : ScoreGrid,
     comp : ScoreGrid, higher : ScoreGrid]

InitScores ==
    /\ PipeIdle
    /\ TrendIdle
    /\ UiIdle
    /\ AgentIdle
    /\ input \in ScoreInputs
    /\ output = NoValue

\* lines 56-66 for the five sub-scores, for the same with the sanctions
\* sub-score replaced by higher, and for the same with the reputation
\* sub-score replaced by higher
DeriveScores ==
    /\ ~input.applied
    /\ input' = [input EXCEPT !.applied = TRUE]
    /\ output' =
          [applied  |-> TRUE,
           base     |-> FromScores(input.lit, input.sanc, input.rep, input.pep, input.comp, Num(50, 0)),
           moreSanc |-> FromScores(input.lit, input.higher, input.rep, input.pep, input.comp, Num(50, 0)),
           moreRep  |-> FromScores(input.lit, input.sanc, input.higher, input.pep, input.comp, Num(50, 0))]
    /\ UNCHANGED <<pipeVars, trendVars, uiVars, agentVars>>

NextScores == DeriveScores

SpecScores == InitScores /\ [][NextScores]_vars

(***************************************************************************)
(* The console and the Global Agent together, every pending backend call   *)
(* settling in the end                                                     *)
(***************************************************************************)
\* how many searches and how many feed fetches are started at most
MaxStarted == 1

Started == Len(history) + Cardinality(inflight) <= MaxStarted /\ fetched <= MaxStarted + 1

NextSettling ==
    \/ SetQuery
    \/ HandleSearch /\ Started'
    \/ HandleSearchSettles
    \/ SetCurrentView /\ Started'
    \/ FetchUpdates /\ Started'
    \/ FetchUpdatesSettles

\* the promise handleSearch awaits (line 50) leaves the pending ones: in
\* NextSettling this is a step of HandleSearchSettles and of nothing else
SearchCallSettles == \E c \in inflight : inflight' = inflight \ {c}

\* the promise fetchUpdates awaits (line 516) leaves the pending ones: in
\* NextSettling this is a step of FetchUpdatesSettles and of nothing else
FeedCallSettles == \E c \in fetches : fetches' = fetches \ {c}

\* a promise that is pending is settled at some time: the backend call of
\* analyzeEntityRisk and of getGlobalRiskUpdates resolves or rejects
SpecSettling ==
    /\ InitConsole
    /\ [][NextSettling]_vars
    /\ WF_inflight(SearchCallSettles)
    /\ WF_fetches(FeedCallSettles)

(***************************************************************************)
(* Properties                                                              *)
(***************************************************************************)
\* the text analyzeEntityRisk works on, and what its JSON.parse gives
TheText == TextOr(backend, <<"{","}">>)

TheParse == JSONparse(CleanJson(TheText))

ParseThrows == ~TheParse.ok \/ TheParse.val.t = "null"

ParsesToObject == TheParse.ok /\ TheParse.val.t = "object"

TextFields == {"entityInfo", "litigation", "sanctions", "reputation", "pepExposure", "complianceGaps"}

KeyOf ==
    [entityInfo |-> kEntityInfo, litigation |-> kLitigation, sanctions |-> kSanctions,
     reputation |-> kReputation, pepExposure |-> kPepExposure, complianceGaps |-> kComplianceGaps]

\* C1: whenever the backend call succeeds, analyzeEntityRisk resolves and
\* never rejects, whatever the response text is.
C1_SuccessNeverRejects ==
    (~backend.fails /\ settled.kind # "none") => settled.kind = "resolved"

C1_Witness ==
    /\ ~backend.fails
    /\ settled.kind = "resolved"
    /\ TheParse.ok /\ TheParse.val.t = "null"

\* C2 as stated: every returned report has six non-empty text fields.
C2_AllFieldsNonEmpty ==
    settled.kind = "resolved" => \A f \in TextFields : settled.report[f] # <<>>

\* C2 amended: every returned report has six text fields that are strings;
\* a field is the empty string exactly when the response parsed and the model
\* supplied an empty string or an empty object for its key.
C2_FieldsAreStrings ==
    settled.kind = "resolved" =>
        \A f \in TextFields :
            /\ settled.report[f] \in Seq(STRING)
            /\ settled.report[f] = <<>>
                  <=> /\ ~ParseThrows
                      /\ Prop(TheParse.val, KeyOf[f]) \in {JStr(<<>>), JObj(<<>>, <<>>)}

C2_Witness ==
    /\ settled.kind = "resolved"
    /\ settled.report.sanctions = <<>>
    /\ ~ParseThrows
    /\ Prop(TheParse.val, kSanctions) = JObj(<<>>, <<>>)

\* C3: every returned report has a riskScore that is an integer in [0, 100].
C3_RiskScoreInRange ==
    settled.kind = "resolved" =>
        /\ settled.report.riskScore.e = 0
        /\ settled.report.riskScore.n \in 0..100

\* the degraded report for a response text
IsDegraded(report, text) ==
    /\ \A f \in TextFields \ {"entityInfo"} : report[f] = FormatErrorText
    /\ report.entityInfo =
          RawSummaryNote \o SubSeq(text, 1, Min(Len(text), 150)) \o <<".", ".", ".">>
    /\ report.riskScore = Num(0, 0)

C5_RiskScoreDefault ==
    (settled.kind = "resolved" /\ ParsesToObject) =>
        LET supplied == Prop(TheParse.val, kRiskScore)
        IN  /\ supplied.t = "number" => settled.report.riskScore = Num(supplied.n, supplied.e)
            /\ supplied.t # "number" => settled.report.riskScore = Num(50, 0)
            /\ settled.report.riskScore = Num(0, 0) => supplied = JNum(0, 0)

C5_Witness ==
    /\ settled.kind = "resolved"
    /\ ParsesToObject
    /\ Prop(TheParse.val, kRiskScore) = JStr(<<"8", "0">>)
    /\ settled.report.riskScore = Num(50, 0)

\* C6: when the backend call fails, analyzeEntityRisk rejects with the one
\* generic error and returns no report.
C6_BackendFailureRejects ==
    (backend.fails /\ settled.kind # "none") =>
        /\ settled.kind = "rejected"
        /\ settled.message = FailedToAnalyze
        /\ DOMAIN settled = {"kind", "message"}

C6_Witness == backend.fails /\ settled.kind = "rejected" /\ call = "rejected"

\* C7: getGlobalRiskUpdates never rejects; when the backend call fails, when
\* the text has no [ ... ] span, or when the span is not valid JSON, it
\* resolves to the empty list.
C7_FeedNeverRejects ==
    /\ feedSettled.kind \in {"none", "resolved"}
    /\ feedSettled.kind = "resolved" =>
          LET text == TextOr(backend, <<"[", "]">>)
              span == match(text, "[", "]")
          IN  (backend.fails \/ ~span.found \/ ~JSONparse(span.span).ok)
                  => feedSettled.value = JArr(<<>>)

C7_Witness ==
    /\ feedSettled.kind = "resolved"
    /\ ~backend.fails
    /\ match(backend.text.s, "[", "]").found
    /\ ~JSONparse(match(backend.text.s, "[", "]").span).ok
    /\ feedSettled.value = JArr(<<>>)

C8_Cited(chunk) ==
    /\ chunk.web
    /\ chunk.title.some /\ Len(chunk.title.s) > 0
    /\ chunk.uri.some /\ Len(chunk.uri.s) > 0

\* C8: the sources are exactly the citation chunks with a non-empty title
\* and a non-empty URI, in the original order, duplicates kept.
C8_SourcesAreCitedChunks ==
    settled.kind = "resolved" =>
        LET cited == IF backend.hasChunks THEN SelectSeq(backend.chunks, C8_Cited) ELSE <<>>
        IN  settled.sources =
                [i \in 1..Len(cited) |-> [title |-> cited[i].title.s, uri |-> cited[i].uri.s]]

C8_Witness ==
    /\ settled.kind = "resolved"
    /\ Len(backend.chunks) = 2
    /\ ~C8_Cited(backend.chunks[1])
    /\ C8_Cited(backend.chunks[2])
    /\ Len(settled.sources) = 1

\* C9: for a report with riskScore in [0,100] and any category texts,
\* severity and likelihood lie in [10,100] and residualRisk in [0,100].
C9_AnalyticsBounds ==
    analytics.present =>
        /\ analytics.value.severity \in 10..100
        /\ analytics.value.likelihood \in 10..100
        /\ analytics.value.residualRisk \in 0..100

C9_Witness ==
    /\ analytics.present
    /\ analytics.value.scores.sanctions = 0
    /\ analytics.value.scores.reputation = 0
    /\ analytics.value.severity = 10
    /\ analytics.value.likelihood = 10

\* C10: for every report analyzeEntityRisk can return, the residualRisk the
\* analytics engine derives from it lies in [0,100].
C10_ResidualWithinBounds ==
    analytics.present => analytics.value.residualRisk \in 0..100

\* C11: the finished trend series has exactly parseInt(timeRange) samples, which
\* is 30, 60 or 90, and every sample produced lies in [5, 98], whatever the
\* residualRisk and the random draws are.
C11_TrendSamples ==
    /\ trend.len >= 1 =>
          /\ trend.last >= 5 * TrendDen(trend.days)
          /\ trend.last <= 98 * TrendDen(trend.days)
    /\ trend.len <= trend.days
    /\ trend.done =>
          /\ trend.len = parseInt(timeRange)
          /\ trend.len \in {30, 60, 90}

\* a finished 90-day series of a high residualRisk whose last sample, pushed up
\* by the bias, sits on the ceiling
C11_Witness ==
    /\ trend.done
    /\ trend.len = 90
    /\ trend.risk = 93
    /\ trend.last = 98 * TrendDen(90)

\* the call c left inflight in this step and its analyzeEntityRisk rejected
RejectedNow(c) ==
    /\ c \in inflight
    /\ c \notin inflight'
    /\ analyzeEntityRisk(c.backend).kind = "rejected"

\* C12: when analyzeEntityRisk rejects, the console that made the search shows
\* the one fixed error message, with result null and loading false, and nothing
\* is passed up to App: recentRiskAnalysis is what it was.
C12_RejectionShowsError ==
    [][\A c \in inflight :
          RejectedNow(c) =>
              /\ recentRiskAnalysis' = recentRiskAnalysis
              /\ (currentView = "DASHBOARD" /\ c.inst = mount) =>
                    /\ error' = Some(UnableToComplete)
                    /\ result' = NoResult
                    /\ loading' = FALSE]_vars

\* a search of the mounted console has been rejected: the message is shown
C12_Witness ==
    /\ currentView = "DASHBOARD"
    /\ error = Some(UnableToComplete)
    /\ result = NoResult
    /\ ~loading
    /\ history # <<>>
    /\ history[Len(history)].inst = mount
    /\ history[Len(history)].backend = BackendFails

\* C13: when a feed refresh of the mounted Global Agent view completes, every
\* event in its events list is one of the events that refresh returned, so
\* nothing of an earlier refresh is carried over and a failed refresh, which
\* returns no events, leaves the list empty.
C13_RefreshReplacesEvents ==
    [][\A c \in fetches :
          (c \notin fetches' /\ AgentMounted(c)) =>
              \A i \in 1..Len(events') :
                  \E j \in 1..Len(feedSettled'.value.kids) :
                      events'[i] = feedSettled'.value.kids[j]]_vars

\* what the console makes of the call c when its analyzeEntityRisk resolves
ResultOf(c) == resultObj(analyzeEntityRisk(c.backend), c.term)

Resolves(c) == analyzeEntityRisk(c.backend).kind = "resolved"

\* C14: of two searches of which the second was submitted while the first was
\* in flight, both resolving successfully, the one that resolves last gives
\* both the result the console displays and the analysis App holds for the
\* live dashboard.
C14_LastResolvedWins ==
    [][\A c \in inflight :
          (/\ inflight = {c}
           /\ inflight' = {}
           /\ Len(history) = 1
           /\ c.overlaps \/ history[1].overlaps
           /\ Resolves(c)
           /\ Resolves(history[1])
           /\ currentView = "DASHBOARD")
          => /\ recentRiskAnalysis' = ResultOf(c)
             /\ result' = ResultOf(c)]_vars

\* the characters a string of the model is made of
Alphabet ==
    LowerSet \cup UpperSet \cup DigitSet
    \cup {" ", "\n", ".", ",", ":", "-", BulletPrefix[1], BulletPrefix[2], BulletPrefix[3]}

\* C15: for every JSON value (null, boolean, number, string, array, object,
\* nested) ensureString returns a string: a sequence of characters, never the
\* mark of a thrown exception.
C15_EnsureStringTotal ==
    output.applied => \A i \in 1..Len(output.val) : output.val[i] \in Alphabet

\* ensureString has been applied to an array that holds an object that holds
\* an array of leaves, among them null
C15_Witness ==
    /\ output.applied
    /\ input.val.t = "array"
    /\ Len(input.val.kids) = 1
    /\ input.val.kids[1].t = "object"
    /\ Len(input.val.kids[1].kids) = 1
    /\ input.val.kids[1].kids[1].t = "array"
    /\ Len(input.val.kids[1].kids[1].kids) = 2
    /\ input.val.kids[1].kids[1].kids[1].t = "null"
    /\ Len(output.val) > 20

\* the report of the scenario: every category text is the "no significant
\* adverse records" sentence and riskScore is 5
C16_CleanReport ==
    /\ recentRiskAnalysis.present
    /\ recentRiskAnalysis.report.litigation = NoAdverseText
    /\ recentRiskAnalysis.report.sanctions = NoAdverseText
    /\ recentRiskAnalysis.report.reputation = NoAdverseText
    /\ recentRiskAnalysis.report.pepExposure = NoAdverseText
    /\ recentRiskAnalysis.report.complianceGaps = NoAdverseText
    /\ recentRiskAnalysis.report.riskScore = Num(5, 0)

\* the five sub-scores all equal 1 (10 tenths)
C16_SubScoresOne ==
    /\ analytics.value.scores.litigation = 10
    /\ analytics.value.scores.sanctions = 10
    /\ analytics.value.scores.reputation = 10
    /\ analytics.value.scores.pep = 10
    /\ analytics.value.scores.compliance = 10

\* C16 as stated: for that report all five sub-scores equal 1, severity and
\* likelihood are both 10 and residualRisk is 3.
C16_FloorScenario ==
    (analytics.present /\ C16_CleanReport) =>
        /\ C16_SubScoresOne
        /\ analytics.value.severity = 10
        /\ analytics.value.likelihood = 10
        /\ analytics.value.residualRisk = 3

\* C16, amended: for that report all five sub-scores equal 1, severity is 18
\* (7/40 of 100, rounded) and likelihood is 16 (5.5/35 of 100, rounded), both
\* above their floor of 10, and residualRisk is 4.
C16_CleanScenario ==
    (analytics.present /\ C16_CleanReport) =>
        /\ C16_SubScoresOne
        /\ analytics.value.severity = 18
        /\ analytics.value.likelihood = 16
        /\ analytics.value.residualRisk = 4

\* the analytics of the scenario's report have been computed
C16_Witness == analytics.present /\ C16_CleanReport

\* the response text is the object a, the separator sep and the object b
C17_TextIs(a, sep, b) ==
    /\ settled.kind # "none"
    /\ ~backend.fails
    /\ backend.text = Some(Stringify(a) \o sep \o Stringify(b))

\* C17: when the response text holds two JSON objects with other text between
\* them, the captured span runs from the first '{' to the last '}' (here the
\* whole text), it does not parse, and analyzeEntityRisk resolves with the
\* degraded fallback report, which is the report of neither object alone.
C17_TwoObjectsDegrade ==
    \A a \in TwoObjects, b \in TwoObjects, sep \in Separators :
        C17_TextIs(a, sep, b) =>
            /\ CleanJson(backend.text.s) = backend.text.s
            /\ ~JSONparse(CleanJson(backend.text.s)).ok
            /\ settled.kind = "resolved"
            /\ settled.report = FallbackReport(backend.text.s)
            /\ settled.report.riskScore = Num(0, 0)
            /\ settled.report.litigation = FormatErrorText
            /\ settled.report # BuildReport(Stringify(a)).val
            /\ settled.report # BuildReport(Stringify(b)).val

\* the call has settled on two different objects, each of which gives a
\* report of its own, with a line break between them
C17_Witness ==
    /\ C17_TextIs(SmallObject, <<"\n">>, FullObject)
    /\ settled.kind = "resolved"
    /\ BuildReport(Stringify(SmallObject)).val.riskScore = Num(20, 0)
    /\ BuildReport(Stringify(FullObject)).val.riskScore = Num(35, 0)

\* C18: when the response text is a valid JSON object with prose before
\* and/or after it that holds no brace, analyzeEntityRisk settles exactly as it
\* does for the object alone; when it is a valid JSON array with prose around
\* it that holds no square bracket, getGlobalRiskUpdates settles exactly as it
\* does for the array alone.
C18_ProseIgnored ==
    /\ \A pre \in BracelessPreambles, o \in WrapObjects, post \in BracelessPostambles :
          (settled.kind # "none" /\ backend.text = Some(pre \o Stringify(o) \o post)) =>
              /\ settled.kind = "resolved"
              /\ settled = analyzeEntityRisk(
                               BackendAnswers(Some(Stringify(o)), backend.hasChunks, backend.chunks))
    /\ \A pre \in BracketlessPreambles, a \in WrapArrays, post \in BracketlessPostambles :
          (feedSettled.kind # "none" /\ backend.text = Some(pre \o Stringify(a) \o post)) =>
              /\ feedSettled = getGlobalRiskUpdates(BackendAnswers(Some(Stringify(a)), FALSE, <<>>))
              /\ feedSettled.value = a

\* both calls have settled on JSON with prose on both sides: the report is the
\* one of the bare object, the list is the bare array
C18_Witness ==
    \/ /\ backend.text = Some(<<"s","e","e"," ","[","n","o","t","e","]"," ","1",":","\n">> \o Stringify(SmallObject) \o <<" ","H","o","p","e"," ","t","h","i","s"," ","h","e","l","p","s",".">>)
       /\ settled.kind = "resolved"
       /\ settled.report.riskScore = Num(20, 0)
       /\ feedCall = "resolved"
    \/ /\ backend.text = Some(<<"N","o","t","e"," ","{","d","r","a","f","t","}"," ">> \o Stringify(JArr(<<EventA, EventB>>)) \o <<" ","d","o","n","e",".">>)
       /\ feedSettled.kind = "resolved"
       /\ feedSettled.value = JArr(<<EventA, EventB>>)
       /\ call = "resolved"

\* the text contains one of the "no adverse findings" phrases, in any case
C19_HasSafePhrase(text) ==
    \E p \in 1..Len(SafePatterns) : includes(toLowerCase(text), SafePatterns[p])

\* the number of distinct listed keywords that occur in the text, in any case
C19_Hits(text) ==
    Cardinality({k \in 1..Len(keywords) : includes(toLowerCase(text), keywords[k])})

\* min(10, 3 + 2[length > 100] + 2[length > 300] + 1.5 hits), in tenths
C19_Graded(text) ==
    Min(100, 30 + (IF Len(text) > 100 THEN 20 ELSE 0) + (IF Len(text) > 300 THEN 20 ELSE 0)
                + 15 * C19_Hits(text))

\* C19 as stated: the sub-score is 1 when the text contains a "no adverse
\* findings" phrase and min(10, 3 + 2[length > 100] + 2[length > 300]
\* + 1.5 hits) otherwise; it lies in [0,10]; the example text scores 7.5.
C19_SubScore ==
    output.applied =>
        /\ output.val = (IF C19_HasSafePhrase(input.val) THEN 10 ELSE C19_Graded(input.val))
        /\ output.val \in 0..100
        /\ input.val = SanctionedText => output.val = 75

\* C19, amended: the sub-score of the empty text is 0; the sub-score of a
\* non-empty text is 1 when it contains a "no adverse findings" phrase and
\* min(10, 3 + 2[length > 100] + 2[length > 300] + 1.5 hits) otherwise; it
\* lies in [0,10]; the example text scores 7.5.
C19_SubScoreOfText ==
    output.applied =>
        /\ output.val = (IF input.val = <<>> THEN 0
                         ELSE IF C19_HasSafePhrase(input.val) THEN 10
                         ELSE C19_Graded(input.val))
        /\ output.val \in 0..100
        /\ input.val = SanctionedText => output.val = 75

\* the example text has been scored
C19_Witness ==
    /\ output.applied
    /\ input.val = SanctionedText
    /\ output.val = 75

\* C20: with the other sub-scores held fixed, a higher sanctions sub-score
\* never gives a lower severity and a higher reputation sub-score never gives
\* a lower likelihood, for sub-scores anywhere in [0,10].
C20_Monotone ==
    output.applied =>
        /\ input.higher >= input.sanc => output.moreSanc.severity >= output.base.severity
        /\ input.higher >= input.rep => output.moreRep.likelihood >= output.base.likelihood

\* both sub-scores were raised and both severity and likelihood rose, neither
\* sitting on its floor or its ceiling
C20_Witness ==
    /\ output.applied
    /\ input.higher > input.sanc
    /\ input.higher > input.rep
    /\ output.base.severity > 10
    /\ output.moreSanc.severity > output.base.severity
    /\ output.moreSanc.severity < 100
    /\ output.base.likelihood > 10
    /\ output.moreRep.likelihood > output.base.likelihood
    /\ output.moreRep.likelihood < 100

\* one bullet-prefixed line per element, the element normalized one level
\* deeper, in the order of the array
C21_Lines(kids) == [i \in 1..Len(kids) |-> BulletPrefix \o ensureString(kids[i], 1)]

\* C21: ensureString maps null and a missing value to "No data available.",
\* a string to itself, a number or a boolean to its canonical string, the
\* empty array to "None." and any other array to one bullet-prefixed line per
\* element, normalized at depth + 1, joined by newlines in the original order.
C21_LeavesAndArrays ==
    output.applied =>
        /\ input.val.t \in {"null", "undefined"} => output.val = <<"N","o"," ","d","a","t","a"," ","a","v","a","i","l","a","b","l","e",".">>
        /\ input.val.t = "string" => output.val = input.val.s
        /\ input.val = JNum(0 - 25, 1) => output.val = <<"-","2",".","5">>
        /\ input.val.t = "number" => output.val = NumberToString(input.val.n, input.val.e)
        /\ input.val = JBool(TRUE) => output.val = <<"t","r","u","e">>
        /\ (input.val.t = "array" /\ input.val.kids = <<>>) => output.val = <<"N","o","n","e",".">>
        /\ (input.val.t = "array" /\ input.val.kids # <<>>) =>
              output.val = join(C21_Lines(input.val.kids), <<"\n">>)

\* an array of null and an object of two keys has been normalized: two lines,
\* the second holding the object's entries joined by ", "
C21_Witness ==
    /\ output.applied
    /\ input.val = JArr(<<JNull, JObj(<<NormKeys[1], NormKeys[2]>>, <<JStr(<<"o","k">>), JBool(TRUE)>>)>>)
    /\ output.val = BulletPrefix \o <<"N","o"," ","d","a","t","a"," ","a","v","a","i","l","a","b","l","e",".">> \o <<"\n">> \o BulletPrefix
                      \o <<"R","i","s","k"," ","L","e","v","e","l",":"," ","o","k",","," ","A",":"," ","t","r","u","e">>

\* the key from its i-th character on, a space put before each capital letter
\* that is not the first character of the key
RECURSIVE C22_SpaceInternal(_, _)
C22_SpaceInternal(k, i) ==
    IF i > Len(k) THEN <<>>
    ELSE (IF i > 1 /\ IsUpper(k[i]) THEN <<" ", k[i]>> ELSE <<k[i]>>) \o C22_SpaceInternal(k, i + 1)

\* the label of a key: internal capitals spaced, first letter capitalized
C22_Label(k) == UpperFirst(C22_SpaceInternal(k, 1))

\* the "Label: value" entries of an object, the values normalized one level deeper
C22_Entries(obj) ==
    [i \in 1..Len(obj.keys) |-> C22_Label(obj.keys[i]) \o <<":", " ">> \o ensureString(obj.kids[i], 1)]

\* C22: an object is rendered as "Label: value" entries in key order, the label
\* being the key with a space before each internal capital and its first letter
\* capitalized; the entries are joined by a newline at depth 0 and by ", " at
\* depth > 0 (here: an object that is the only element of an array).
C22_ObjectEntries ==
    output.applied =>
        /\ input.val.t = "object" => output.val = join(C22_Entries(input.val), <<"\n">>)
        /\ (input.val.t = "array" /\ Len(input.val.kids) = 1 /\ input.val.kids[1].t = "object") =>
              output.val = BulletPrefix \o join(C22_Entries(input.val.kids[1]), <<",", " ">>)
        /\ input.val = JObj(<<NormKeys[1]>>, <<JNum(0 - 25, 1)>>) => output.val = <<"R","i","s","k"," ","L","e","v","e","l",":"," ","-","2",".","5">>

C24_TwiceOff == IF trend.noise + trend.bias < 0
                THEN 0 - 2 * (trend.noise + trend.bias) ELSE 2 * (trend.noise + trend.bias)

\* the bias is 0 unless residualRisk > 60 and the index is beyond
\* floor(trendDays * 0.6); the noise spans 12 when residualRisk > 50 and 5
\* otherwise; up to 50 the sample before clamping is within 2.5 of residualRisk
C24_NoiseAndBiasRanges ==
    trend.len >= 1 =>
        /\ ~(trend.risk > 60 /\ trend.len - 1 > (3 * trend.days) \div 5) => trend.bias = 0
        /\ trend.risk > 50 =>
              /\ 2 * trend.noise >= 0 - 12 * TrendDen(trend.days)
              /\ 2 * trend.noise <= 12 * TrendDen(trend.days)
        /\ trend.risk <= 50 =>
              /\ 2 * trend.noise >= 0 - 5 * TrendDen(trend.days)
              /\ 2 * trend.noise <= 5 * TrendDen(trend.days)
              /\ C24_TwiceOff <= 5 * TrendDen(trend.days)

\* C24: the bias is 0 unless residualRisk > 60 and the index is beyond
\* floor(trendDays * 0.6), the noise spans 12 when residualRisk > 50 and 5
\* otherwise; so up to a residualRisk of 50 every sample is within 2.5 of it
\* before clamping, and up to a residualRisk of 60 no sample of the series
\* exceeds residualRisk + 6.
C24_NoiseAndBias ==
    /\ C24_NoiseAndBiasRanges
    /\ (trend.len >= 1 /\ trend.risk <= 60) =>
          trend.last <= (trend.risk + 6) * TrendDen(trend.days)

\* C25: in the console, a search being submitted only while loading is false,
\* result and error are never both set, and while loading is true both are null.
C25_ResultErrorExclusive ==
    /\ ~(result.present /\ error.some)
    /\ loading => (~result.present /\ ~error.some)

\* a second search of the same console instance is loading after its first
\* search was rejected and had shown the error
C25_Witness ==
    /\ loading
    /\ Len(history) = 1
    /\ history[1].inst = mount
    /\ analyzeEntityRisk(history[1].backend).kind = "rejected"
    /\ \E c \in inflight : c.inst = mount

\* the call c leaves inflight in this step and its analyzeEntityRisk resolved
C26_CompletedNow(c) ==
    /\ c \in inflight
    /\ c \notin inflight'
    /\ analyzeEntityRisk(c.backend).kind = "resolved"

\* C26: recentRiskAnalysis changes only in a step in which an analysis
\* completes successfully, and then to that analysis; starting a search, a
\* failed search and a switch of views leave it as it is, and once it is set it
\* never becomes null again, though the console's result is cleared by each
\* new search.
C26_AnalysisKept ==
    [][/\ recentRiskAnalysis' # recentRiskAnalysis =>
             \E c \in inflight :
                 /\ C26_CompletedNow(c)
                 /\ recentRiskAnalysis' = resultObj(analyzeEntityRisk(c.backend), c.term)
       /\ currentView' # currentView => recentRiskAnalysis' = recentRiskAnalysis
       /\ (\E c \in inflight' : c \notin inflight) => recentRiskAnalysis' = recentRiskAnalysis
       /\ (\E c \in inflight : c \notin inflight' /\ analyzeEntityRisk(c.backend).kind = "rejected")
             => recentRiskAnalysis' = recentRiskAnalysis
       /\ recentRiskAnalysis.present => recentRiskAnalysis'.present]_vars

\* App still holds the analysis of the first search in the live view, after a
\* second search cleared the console's result and failed
C26_Witness ==
    /\ recentRiskAnalysis.present
    /\ currentView = "LIVE"
    /\ ~result.present
    /\ Len(history) = 2
    /\ analyzeEntityRisk(history[1].backend).kind = "resolved"
    /\ analyzeEntityRisk(history[2].backend).kind = "rejected"
    /\ recentRiskAnalysis.entityName = history[1].term

\* the console on the screen is loading / the Global Agent on the screen is loading
C27_ConsoleLoading == currentView = "DASHBOARD" /\ loading

C27_AgentLoading == currentView = "AGENT" /\ agentLoading

\* loading is true only while a call of the instance on the screen is pending
C27_NotStuck ==
    /\ C27_ConsoleLoading => \E c \in inflight : c.inst = mount
    /\ C27_AgentLoading => \E c \in fetches : c.inst = agentMount

\* C27: every search that is started and every feed refresh ends with loading
\* false once its backend call has settled, resolved or rejected: loading is
\* never true after the call of the instance on the screen has settled, and a
\* console or Global Agent that is loading stops loading (or is left).
C27_LoadingEnds ==
    /\ []C27_NotStuck
    /\ C27_ConsoleLoading ~> ~C27_ConsoleLoading
    /\ C27_AgentLoading ~> ~C27_AgentLoading

\* both a search and a refresh have ended with loading false, the search
\* rejected and the refresh with a sort that threw
C27_Witness ==
    /\ currentView = "AGENT"
    /\ ~agentLoading
    /\ fetches = {}
    /\ inflight = {}
    /\ Len(history) >= 1
    /\ analyzeEntityRisk(history[1].backend).kind = "rejected"
    /\ feedSettled.kind = "resolved"
    /\ feedSettled.value = JArr(<<JNull, JNull>>)

\* the report on the dashboard is the degraded one: riskScore 0 and the five
\* category fields equal to the format-error message
C28_DegradedReport ==
    /\ recentRiskAnalysis.present
    /\ recentRiskAnalysis.report.riskScore = Num(0, 0)
    /\ recentRiskAnalysis.report.litigation = FormatErrorText
    /\ recentRiskAnalysis.report.sanctions = FormatErrorText
    /\ recentRiskAnalysis.report.reputation = FormatErrorText
    /\ recentRiskAnalysis.report.pepExposure = FormatErrorText
    /\ recentRiskAnalysis.report.complianceGaps = FormatErrorText

\* the five sub-scores all equal 3 (30 tenths)
C28_SubScoresThree(a) ==
    /\ a.scores.litigation = 30
    /\ a.scores.sanctions = 30
    /\ a.scores.reputation = 30
    /\ a.scores.pep = 30
    /\ a.scores.compliance = 30

\* severity and likelihood are above their floor of 10, and residualRisk is
\* above what the floor values give at riskScore 0
C28_AboveMinimum(a) ==
    /\ a.severity = 53 /\ a.severity > 10
    /\ a.likelihood = 47 /\ a.likelihood > 10
    /\ a.residualRisk = 12 /\ a.residualRisk > 1

\* C28: when the dashboard computes the analytics of the degraded report
\* (riskScore 0, the five category fields equal to the format-error message),
\* each of the five sub-scores is 3, and severity (53), likelihood (47) and
\* residualRisk (12) are above their minimum values.
C28_DegradedAnalytics ==
    [][(C28_DegradedReport /\ analytics' # analytics) =>
          /\ analytics'.present
          /\ C28_SubScoresThree(analytics'.value)
          /\ C28_AboveMinimum(analytics'.value)]_vars

\* the degraded report came out of a search and its analytics were computed
C28_Witness ==
    /\ settled.kind = "resolved"
    /\ settled.report.litigation = FormatErrorText
    /\ C28_DegradedReport
    /\ analytics.present
    /\ analytics.value.scores.sanctions = 30
    /\ analytics.value.residualRisk = 12

\* the calls a step issues
C29_Issued == inflight' \ inflight

\* a submit with a blank query: a step taken while the query is blank that is
\* neither typing, nor a call settling, nor a change of view
C29_BlankSubmit ==
    /\ trim(query) = <<>>
    /\ query' = query
    /\ history' = history
    /\ currentView' = currentView

\* C29: a submit with an empty or whitespace-only query issues no backend
\* call and leaves query, loading, error and result unchanged; a step issues
\* at most one call, only for a non-blank query, with the query as typed as
\* its term, and clears the input at once; the entityName of a result that
\* is set is the term of the call that settled.
C29_Submit ==
    [][/\ trim(query) = <<>> => C29_Issued = {}
       /\ C29_BlankSubmit => UNCHANGED <<loading, error, result, inflight>>
       /\ C29_Issued # {} =>
             /\ Cardinality(C29_Issued) = 1
             /\ \A c \in C29_Issued : c.term = query /\ c.inst = mount
             /\ query' = <<>>
             /\ loading'
       /\ (result' # result /\ result'.present) =>
             \E c \in inflight \ inflight' : result'.entityName = c.term]_vars

\* the query " bolt" was submitted as typed and its result is shown, and a
\* whitespace-only query is in the input of an idle console
C29_Witness ==
    /\ currentView = "DASHBOARD"
    /\ ~loading
    /\ query = <<" ">>
    /\ result.present
    /\ result.entityName = <<" ", "b", "o", "l", "t">>
    /\ \E i \in 1..Len(history) : history[i].term = <<" ", "b", "o", "l", "t">>

\* the elements of a list
C30_Elements(list) == {list[i] : i \in 1..Len(list)}

\* the event has a category and it is one that is selected
C30_Selected(e, selection) ==
    /\ Prop(e, kCategory).t = "string"
    /\ Prop(e, kCategory).s \in C30_Elements(selection)

\* the events whose category is selected, in the order of the list
RECURSIVE C30_Matching(_, _)
C30_Matching(list, selection) ==
    IF list = <<>> THEN <<>>
    ELSE (IF C30_Selected(list[1], selection) THEN <<list[1]>> ELSE <<>>)
             \o C30_Matching(Tail(list), selection)

\* the positions of the events whose category is missing or not one of the five
C30_Unknown ==
    {i \in 1..Len(events) : ~C30_Selected(events[i], CategoryIds)}

C30_WitnessOther ==
    /\ currentView = "AGENT"
    /\ ~agentLoading
    /\ Len(events) = 3
    /\ Len(filteredEvents) = 1
    /\ EventOdd \in C30_Elements(events)

====
